---- MODULE Spec2Model ----
(***************************************************************************)
(* A model of the MCP tool client of vertex-mcp-server:                    *)
(*   - StdioMCPConnection: one spawned subprocess, newline-delimited JSON   *)
(*     on its stdin/stdout, a table of pending requests keyed by id, one    *)
(*     30 s timer per request;                                              *)
(*   - BaseMCPConnection.callTool: the shared error capture;                *)
(*   - EnhancedMCPClient: the registry of named connections, the discovery  *)
(*     of their tools, the routing of a tool's execution, shutdown;         *)
(*   - the agentic scheduler (AgenticLoop), whose source is not part of     *)
(*     the files modelled here: its turn loop follows section 4.4 of the    *)
(*     specification, and the tool executions it issues follow the code.    *)
(*                                                                          *)
(* Node runs every callback to completion, so each action below is one      *)
(* callback (or the synchronous part of one call) of the source.            *)
(***************************************************************************)
EXTENDS Integers, Sequences, FiniteSets, TLC

\* ---------------------------------------------------------------- bounds
\* requests submitted on one connection
MaxId == 2
\* whole lines delivered by one stdout 'data' event (Spec)
MaxLines == 1
\* bytes delivered by one stdout 'data' event (WireSpec, FramerSpec)
MaxChunk == 3
\* bytes of an incomplete line kept between two reads (WireSpec)
MaxBuf == 1
\* bytes received in all (FramerSpec)
MaxStream == 4
\* the greatest options.maxTurns of a run (LoopSpec)
MaxTurns == 2
\* tool calls the model requests in one turn (LoopSpec)
MaxCalls == 2
\* messages in the history of one session (HandlerSpec)
MaxHistory == 4
\* multimodal parts of one query (QuerySpec)
MaxParts == 2
\* characters of the response a ModelBehaviorError carries (TruncSpec)
MaxResponse == 203
\* subprocesses one client spawns (LeakSpec)
MaxSpawns == 3

\* ------------------------------------------------------------ wire bytes
\* '\n', the line delimiter of buffer.split('\n') and of sendRequest
NL == 10
\* U+FFFD, what Buffer.toString() yields for an incomplete UTF-8 sequence
Replacement == 65533

\* The digit that JSON.stringify writes for the id i (ids are 1..9 here).
IdByte(i) == 48 + i
\* 'e': in the model's wire encoding, the mark of a response with an error field.
ErrByte == {101}

Ids == 1..MaxId

Min(a, b) == IF a < b THEN a ELSE b

\* ------------------------------------------------- stdout framing (159-176)
IsCont(b) == b >= 128 /\ b <= 191
IsLead2(b) == b >= 194 /\ b <= 223

\* data.toString(): UTF-8 decoding of ONE chunk, on its own. A sequence that
\* is cut by the end of the chunk, or a continuation byte without its lead,
\* decodes to U+FFFD.
RECURSIVE Decode(_)
Decode(bytes) ==
  IF bytes = <<>> THEN <<>>
  ELSE IF bytes[1] < 128 THEN <<bytes[1]>> \o Decode(Tail(bytes))
  ELSE IF IsLead2(bytes[1]) /\ Len(bytes) >= 2 /\ IsCont(bytes[2])
       THEN <<(bytes[1] - 192) * 64 + (bytes[2] - 128)>>
              \o Decode(SubSeq(bytes, 3, Len(bytes)))
  ELSE <<Replacement>> \o Decode(Tail(bytes))

\* String.prototype.split('\n'): the segments between newlines, at least one.
RECURSIVE Split(_)
Split(s) ==
  IF \A k \in 1..Len(s) : s[k] # NL THEN <<s>>
  ELSE LET k == CHOOSE k \in 1..Len(s) : s[k] = NL /\ \A j \in 1..(k-1) : s[j] # NL
       IN  <<SubSeq(s, 1, k-1)>> \o Split(SubSeq(s, k+1, Len(s)))

\* lines.pop(): the sequence without its last element
ButLast(q) == SubSeq(q, 1, Len(q) - 1)

\* The first three statements of the 'data' handler: append the decoded chunk,
\* split, keep the last segment. [buffer: what is kept, lines: what is looped over]
OnData(buf, data) ==
  LET all == Split(buf \o Decode(data))
  IN  [buffer |-> all[Len(all)], lines |-> ButLast(all)]

\* white space as String.prototype.trim and JSON.parse skip it (tab, CR, space)
IsSpace(c) == c \in {9, 13, 32}
\* !line.trim()
IsBlank(line) == \A k \in 1..Len(line) : IsSpace(line[k])

RECURSIVE StripLeft(_)
StripLeft(s) == IF s # <<>> /\ IsSpace(s[1]) THEN StripLeft(Tail(s)) ELSE s
RECURSIVE StripRight(_)
StripRight(s) == IF s # <<>> /\ IsSpace(s[Len(s)]) THEN StripRight(ButLast(s)) ELSE s

\* JSON.parse(line) over the model's wire encoding of the responses of
\* spec section 6: <id digit> is {"id":i,"result":..}, <id digit>'e' is
\* {"id":i,"error":{..}}. Every other line throws SyntaxError (ok = FALSE).
Parse(line) ==
  LET s == StripRight(StripLeft(line))
  IN  IF Len(s) \in {1, 2} /\ s[1] - 48 \in 1..9 /\ (Len(s) = 2 => s[2] \in ErrByte)
      THEN [ok |-> TRUE, id |-> s[1] - 48, error |-> (Len(s) = 2)]
      ELSE [ok |-> FALSE, id |-> 0, error |-> FALSE]


\* ------------------------------------------------------------------ state
VARIABLES
  process,          \* this.process: "null" or "child" (the ChildProcess handle)
  child,            \* the spawned OS process: "none", "running", "dead" (terminated,
                    \* 'exit' not yet emitted), "exited" ('exit' emitted)
  killed,           \* ChildProcess.killed
  stdoutOpen,       \* the child's stdout can still emit 'data'
  buffer,           \* the 'data' handler's accumulation buffer (decoded characters)
  messageId,        \* this.messageId
  pendingRequests,  \* the keys of this.pendingRequests
  outcome,          \* per request id: how its promise was settled (the first settle wins)
  settleCount,      \* per request id: calls of its resolve/reject so far (capped at 2)
  timer,            \* per request id: its setTimeout: "unset", "armed", "fired"
  written,          \* the ids of the requests written to the child's stdin, in order
  lastEvent,        \* the callback that ran last, and what it met
  fStream,          \* framing history: every byte received on stdout so far
  fLines,           \* framing history: every line handed to JSON.parse so far
  stdioServers,     \* EnhancedMCPClient.stdioServers: per server name "absent", or the
                    \* state of the registered connection: "connected", "closed"
  httpServers,      \* EnhancedMCPClient.httpServers: per server name "absent" or "present"
  stdioKeys,        \* the keys of stdioServers in insertion order (the order a Map iterates)
  httpKeys,         \* the keys of httpServers in insertion order
  discoveredTools,  \* EnhancedMCPClient.discoveredTools: the wrappers, in push order
  task,             \* the initialize() or discoverTools() call in progress: where it is
                    \* suspended, and what the pass has met so far
  callResult,       \* the last operation on the client, and how it ended
  runState,         \* the scheduler: "Idle", "Running", "Completed", "MaxTurnsExceeded", "Failed"
  maxTurns,         \* options.maxTurns of the run
  turnsUsed,        \* the turn counter
  modelCalls,       \* invocations of the model service in this run
  toolCallsCount,   \* tool calls issued in this run
  messages,         \* the message sequence of the run
  requests,         \* the number of tool calls the model requested in the turn in progress
  results,          \* per request of the turn: "pending" or the status of its ToolResult
  arrived,          \* the requests of the turn in the order their calls completed
  lastCall,         \* the tool call that completed last, and how its execute() ended
  sessions,         \* the conversation store: the identifiers of its sessions
  histories,        \* the conversation store: per identifier, the messages of its session
  handling,         \* the QueryHandler.handle call in progress: where it is suspended,
                    \* its sessionId, and the store operations it has made
  storeOp,          \* the last operation on the store or return of handle, and its result
  toolsCall,        \* a tools/call on the subprocess connection: the response that came
                    \* for it and how callTool ended
  httpCalls,        \* HttpMCPConnection: per call in flight or ended, its method, the
                    \* response it got and how it ended
  httpConfig,       \* HttpMCPConnection.config, the one field of the connection
  geminiQuery,      \* the GeminiAIService.query call in progress: the parts built so far,
                    \* the calls of the model backend, and how it ended
  modelError,       \* a ModelBehaviorError: its response, and what getTruncatedResponse gave
  oldChild,         \* the OS process spawned by the connect() before the last one:
                    \* "none", "running", "dead", "exited"
  spawns            \* EnhancedMCPClient with its subprocesses told apart: every child
                    \* spawned so far, and per server name the child of the
                    \* connection in stdioServers

connVars == <<process, child, killed, stdoutOpen, buffer, messageId, pendingRequests,
              outcome, settleCount, timer, written, lastEvent>>
framerVars == <<fStream, fLines>>
clientVars == <<stdioServers, httpServers, stdioKeys, httpKeys, discoveredTools, task,
                callResult>>
loopVars == <<runState, maxTurns, turnsUsed, modelCalls, toolCallsCount, messages, requests,
              results, arrived, lastCall>>
storeVars == <<sessions, histories, handling, storeOp>>
httpVars == <<httpCalls, httpConfig>>
\* the state of the request handlers and of the services behind them
\* the subprocesses beside the one of the current connection
lifeVars == <<oldChild, spawns>>
serviceVars == <<storeVars, toolsCall, httpVars, geminiQuery, modelError, lifeVars>>
vars == <<connVars, framerVars, clientVars, loopVars, serviceVars>>

NoOutcome == [kind |-> "none", from |-> 0]
TimeoutError(i) == [kind |-> "timeout", from |-> i]
\* resolve(message.result) / reject(new Error(message.error.message ...))
ResponseOutcome(message) ==
  [kind |-> IF message.error THEN "error" ELSE "result", from |-> message.id]

NoEvent ==
  [op |-> "init", method |-> "", id |-> 0, ret |-> "", matched |-> {}, dropped |-> {},
   bad |-> FALSE, afterBad |-> {}]

\* The promise-related part of the connection, as one value.
Table == [pending |-> pendingRequests, outcome |-> outcome, settle |-> settleCount]

\* A call of the resolve or reject of request i's promise (251): a promise
\* keeps its first settlement, later calls are counted and change nothing.
Settle(st, i, out) ==
  [st EXCEPT !.outcome[i] = IF st.settle[i] = 0 THEN out ELSE @,
             !.settle[i] = Min(@ + 1, 2)]

\* StdioMCPConnection.isConnected (293-295)
IsConnected == process # "null" /\ ~killed

\* nextMessageId without the increment
NextMessageIdNoIncrement == messageId

\* StdioMCPConnection.nextMessageId (286-288): ++this.messageId
NextMessageId == messageId + 1

\* handleResponse with correlation by arrival order instead of by id
HandleResponseByArrival(st, message) ==
  IF st.pending # {}
  THEN LET i == CHOOSE i \in st.pending : \A j \in st.pending : i <= j
       IN  Settle([st EXCEPT !.pending = @ \ {i}], i, ResponseOutcome(message))
  ELSE st

\* handleResponse without the pendingRequests.has(message.id) test
HandleResponseNoHas(st, message) ==
  IF message.id \in Ids
  THEN Settle([st EXCEPT !.pending = @ \ {message.id}], message.id,
              ResponseOutcome(message))
  ELSE st

\* StdioMCPConnection.handleResponse (270-281)
HandleResponse(st, message) ==
  IF message.id \in st.pending
  THEN Settle([st EXCEPT !.pending = @ \ {message.id}], message.id,
              ResponseOutcome(message))
  ELSE st

\* the loop stopping at the first line that fails to parse
RECURSIVE ProcessLinesStopAtBad(_, _)
ProcessLinesStopAtBad(acc, lines) ==
  IF lines = <<>> THEN acc
  ELSE LET line == Head(lines)
           m == Parse(line)
       IN  IF IsBlank(line) THEN ProcessLinesStopAtBad(acc, Tail(lines))
           ELSE IF ~m.ok THEN [acc EXCEPT !.bad = TRUE]
           ELSE ProcessLinesStopAtBad(
                  [acc EXCEPT !.st = HandleResponse(acc.st, m),
                              !.matched = @ \cup ({m.id} \cap acc.st.pending),
                              !.dropped = @ \cup ({m.id} \ acc.st.pending)],
                  Tail(lines))

\* The loop of the 'data' handler (166-175): blank lines are skipped, a line
\* that fails to parse is logged, every other line goes to handleResponse.
\* acc.matched / acc.dropped: the ids of the parsed lines that met / did not
\* meet a pending entry; acc.afterBad: the matched ones that came after a
\* line that failed to parse.
RECURSIVE ProcessLines(_, _)
ProcessLines(acc, lines) ==
  IF lines = <<>> THEN acc
  ELSE LET line == Head(lines)
           m == Parse(line)
       IN  IF IsBlank(line) THEN ProcessLines(acc, Tail(lines))
           ELSE IF ~m.ok THEN ProcessLines([acc EXCEPT !.bad = TRUE], Tail(lines))
           ELSE ProcessLines(
                  [acc EXCEPT !.st = HandleResponse(acc.st, m),
                              !.matched = @ \cup ({m.id} \cap acc.st.pending),
                              !.dropped = @ \cup ({m.id} \ acc.st.pending),
                              !.afterBad = @ \cup (IF acc.bad
                                                   THEN {m.id} \cap acc.st.pending
                                                   ELSE {})],
                  Tail(lines))

\* the timer callback without the has() test
TimeoutFiresNoHas(st, i) ==
  Settle([st EXCEPT !.pending = @ \ {i}], i, TimeoutError(i))

\* the timer callback clearing the whole table
TimeoutFiresClearsAll(st, i) ==
  IF i \in st.pending
  THEN Settle([st EXCEPT !.pending = {}], i, TimeoutError(i))
  ELSE st

\* The setTimeout callback of sendRequest (258-263)
TimeoutFires(st, i) ==
  IF i \in st.pending
  THEN Settle([st EXCEPT !.pending = @ \ {i}], i, TimeoutError(i))
  ELSE st


\* ---------------------------------------------------------------- actions
Methods == {"tools/list", "tools/call"}

\* every sequence of at most n elements of S
RECURSIVE SeqsUpTo(_, _)
SeqsUpTo(S, n) ==
  IF n = 0 THEN {<<>>}
  ELSE LET shorter == SeqsUpTo(S, n - 1)
       IN  shorter \cup {Append(q, b) : q \in {r \in shorter : Len(r) = n - 1}, b \in S}

RECURSIVE Concat(_)
Concat(qs) == IF qs = <<>> THEN <<>> ELSE Head(qs) \o Concat(Tail(qs))

\* What the child may print, line by line: a response for any id, with or
\* without an error field, or a line that is no JSON (a lone 'e').
WireLines ==
  {<<IdByte(i), NL>> : i \in Ids} \cup {<<IdByte(i), b, NL>> : i \in Ids, b \in ErrByte}
    \cup {<<b, NL>> : b \in ErrByte}
\* Spec: the pipe delivers 1..MaxLines whole lines per read.
LineChunks == {Concat(ls) : ls \in SeqsUpTo(WireLines, MaxLines) \ {<<>>}}
\* WireSpec: the pipe cuts the stream anywhere: every chunk of 1..MaxChunk of
\* these bytes (split lines, several lines per chunk, lines that are no JSON).
WireBytes == {IdByte(i) : i \in Ids} \cup ErrByte \cup {NL}
ByteChunks == SeqsUpTo(WireBytes, MaxChunk) \ {<<>>}
\* FramerSpec: also a blank, and the two bytes of a two-byte UTF-8 character.
FramerBytes == {IdByte(1), NL, 32, 195, 169}
FramerChunks == SeqsUpTo(FramerBytes, MaxChunk) \ {<<>>}

\* the server names of the configurations and of the calls: any string is a
\* name, also one with the separator of the public tool names in it
ServerNames == {"A", "A_b"}
\* what a discovery pass has met: the tool set it replaced, what getTools()
\* returned while it was suspended, and what each listTools() answered
NoPass == [prev |-> <<>>, seen |-> {}, listed |-> <<>>]
NoCall == [op |-> "init", server |-> "", impl |-> "", ret |-> "",
           tool |-> "", from |-> "", routed |-> "", closed |-> {}, pass |-> NoPass]
\* no tool call has completed
NoToolCall == [request |-> 0, argsValid |-> TRUE, routed |-> "", impl |-> "", ret |-> ""]
\* no initialize() or discoverTools() in progress
Idle == [pc |-> "idle", caller |-> "", idx |-> 0, pass |-> NoPass]

\* the session identifiers of the requests and of the store
SessionIds == {"s1", "s2"}
\* input.sessionId is undefined (or empty: `!sessionId`)
NoSession == ""
\* no run() has settled
NoRun == [thrown |-> FALSE, state |-> "", finalOutput |-> "", error |-> "",
          toolCallsCount |-> 0, messages |-> <<>>]
NoResponse == [type |-> "", text |-> "", session |-> NoSession, stats |-> FALSE]
\* no handle() in progress
NotHandling == [pc |-> "idle", enable |-> FALSE, sessionId |-> NoSession,
                conversationHistory |-> <<>>, ops |-> <<>>]
NoStoreOp == [op |-> "init", by |-> "", id |-> NoSession, ret |-> <<>>, added |-> <<>>,
              enable |-> FALSE, ops |-> <<>>, run |-> NoRun, thrown |-> FALSE,
              response |-> NoResponse]

\* a ToolResult that is not there yet
NoToolResult == [status |-> "", content |-> "", hasContent |-> FALSE]
NoMessage == [id |-> 0, error |-> "absent", result |-> "absent", text |-> ""]
\* no tools/call made
NoToolsCall == [pc |-> "idle", id |-> 0, msg |-> "", message |-> NoMessage, dropped |-> 0,
                impl |-> "", ret |-> NoToolResult]

\* the flows of control that call the HTTP connection, one call each at a time
HttpCallers == {"c1", "c2"}
NoHttpResponse == [kind |-> "", status |-> 0, body |-> "", text |-> ""]
NoHttpOutcome == [kind |-> "", message |-> "", value |-> ""]
NoHttpCall == [pc |-> "idle", method |-> "", url |-> "", response |-> NoHttpResponse,
               outcome |-> NoHttpOutcome]
\* the HttpMCPConfig the connection was constructed with (19-22)
HttpConfig == [name |-> "A", url |-> "http://localhost:3000/mcp"]

\* no query() made
NoQuery == [pc |-> "idle", allowFileUris |-> FALSE, parts |-> <<>>, builds |-> 0,
            backendCalls |-> 0, sent |-> <<>>, outcome |-> "", error |-> ""]

\* no child spawned by the client, no connection in stdioServers
NoSpawns == [children |-> <<>>, stdioServers |-> [n \in ServerNames |-> 0], op |-> "init"]

\* no ModelBehaviorError constructed
NoModelError == [state |-> "none", response |-> <<>>, truncated |-> <<>>]

Init ==
  /\ process = "null"
  /\ child = "none"
  /\ killed = FALSE
  /\ stdoutOpen = FALSE
  /\ buffer = <<>>
  /\ messageId = 0
  /\ pendingRequests = {}
  /\ outcome = [i \in Ids |-> NoOutcome]
  /\ settleCount = [i \in Ids |-> 0]
  /\ timer = [i \in Ids |-> "unset"]
  /\ written = <<>>
  /\ lastEvent = NoEvent
  /\ fStream = <<>>
  /\ fLines = <<>>
  /\ stdioServers = [n \in ServerNames |-> "absent"]
  /\ httpServers = [n \in ServerNames |-> "absent"]
  /\ stdioKeys = <<>>
  /\ httpKeys = <<>>
  /\ discoveredTools = <<>>
  /\ task = Idle
  /\ callResult = NoCall
  /\ runState = "Idle"
  /\ maxTurns = 0
  /\ turnsUsed = 0
  /\ modelCalls = 0
  /\ toolCallsCount = 0
  /\ messages = <<>>
  /\ requests = 0
  /\ results = <<>>
  /\ arrived = <<>>
  /\ lastCall = NoToolCall
  /\ sessions = {}
  /\ histories = [id \in SessionIds |-> <<>>]
  /\ handling = NotHandling
  /\ storeOp = NoStoreOp
  /\ toolsCall = NoToolsCall
  /\ httpCalls = [c \in HttpCallers |-> NoHttpCall]
  /\ httpConfig = HttpConfig
  /\ geminiQuery = NoQuery
  /\ modelError = NoModelError
  /\ oldChild = "none"
  /\ spawns = NoSpawns

\* StdioMCPConnection.connect (146-195). EnhancedMCPClient.initializeStdioServer
\* calls it once, on a connection it has just constructed. stdio is
\* ['pipe','pipe','pipe'], so stdout and stdin exist; `let buffer = ''`.
Connect ==
  /\ child = "none"
  /\ process' = "child"
  /\ child' = "running"
  /\ stdoutOpen' = TRUE
  /\ buffer' = <<>>
  /\ lastEvent' = [NoEvent EXCEPT !.op = "connect"]
  /\ UNCHANGED <<killed, messageId, pendingRequests, outcome, settleCount, timer, written>>
  /\ UNCHANGED <<framerVars, clientVars, loopVars, serviceVars>>

\* sendRequest without the test of this.process
RequestNoGuard(method) ==
  /\ messageId < MaxId
  /\ LET id == NextMessageId IN
       /\ messageId' = id
       /\ pendingRequests' = pendingRequests \cup {id}
       /\ written' = Append(written, id)
       /\ timer' = [timer EXCEPT ![id] = "armed"]
       /\ lastEvent' = [NoEvent EXCEPT !.op = "request", !.method = method,
                                       !.id = id, !.ret = "pending"]
  /\ UNCHANGED <<process, child, killed, stdoutOpen, buffer, outcome, settleCount>>
  /\ UNCHANGED <<framerVars, clientVars, loopVars, serviceVars>>

\* listTools (200-209) and callTool (part_002 30-45) -> callToolImpl (214-230),
\* up to the promise that sendRequest (246-265) returns: the id is taken, then
\* either the call fails at once (listTools throws, callTool's catch returns an
\* error ToolResult) or the entry is set, the line written and the timer armed.
Request(method) ==
  /\ messageId < MaxId
  /\ LET id == NextMessageId IN
       /\ messageId' = id
       /\ IF process = "null"
          THEN /\ lastEvent' = [NoEvent EXCEPT
                                  !.op = "request", !.method = method, !.id = id,
                                  !.ret = IF method = "tools/call" THEN "errorResult"
                                          ELSE "throw"]
               /\ UNCHANGED <<pendingRequests, written, timer>>
          ELSE /\ pendingRequests' = pendingRequests \cup {id}
               /\ written' = Append(written, id)
               /\ timer' = [timer EXCEPT ![id] = "armed"]
               /\ lastEvent' = [NoEvent EXCEPT !.op = "request", !.method = method,
                                               !.id = id, !.ret = "pending"]
  /\ UNCHANGED <<process, child, killed, stdoutOpen, buffer, outcome, settleCount>>
  /\ UNCHANGED <<framerVars, clientVars, loopVars, serviceVars>>

\* The whole stdout 'data' handler (159-176) on one chunk: what it leaves in
\* the buffer, and what its loop over the complete lines made of the table.
DataResult(chunk) ==
  LET framed == OnData(buffer, chunk)
  IN  [buffer |-> framed.buffer,
       lines |-> framed.lines,
       done |-> ProcessLines([st |-> Table, matched |-> {}, dropped |-> {},
                              bad |-> FALSE, afterBad |-> {}], framed.lines)]

DataEffect(r) ==
  /\ buffer' = r.buffer
  /\ pendingRequests' = r.done.st.pending
  /\ outcome' = r.done.st.outcome
  /\ settleCount' = r.done.st.settle
  /\ lastEvent' = [NoEvent EXCEPT !.op = "data", !.matched = r.done.matched,
                                  !.dropped = r.done.dropped, !.bad = r.done.bad,
                                  !.afterBad = r.done.afterBad]
  /\ UNCHANGED <<process, child, killed, stdoutOpen, messageId, timer, written>>

\* A chunk arrives. The child's stdout outlives this.process: the handler stays
\* attached after close() and after 'exit', until the stream ends.
Data(chunk) ==
  /\ stdoutOpen
  /\ \E r \in {DataResult(chunk)} :
       /\ Len(r.buffer) <= MaxBuf
       /\ DataEffect(r)
  /\ UNCHANGED <<framerVars, clientVars, loopVars, serviceVars>>

\* The same handler, with the bytes and the lines it met recorded.
FramerData(chunk) ==
  /\ stdoutOpen
  /\ Len(fStream) + Len(chunk) <= MaxStream
  /\ \E r \in {DataResult(chunk)} :
       /\ DataEffect(r)
       /\ fLines' = fLines \o SelectSeq(r.lines, LAMBDA l : ~IsBlank(l))
  /\ fStream' = fStream \o chunk
  /\ UNCHANGED <<clientVars, loopVars, serviceVars>>

\* The 30 s timer of request i fires.
Timeout(i) ==
  /\ timer[i] = "armed"
  /\ timer' = [timer EXCEPT ![i] = "fired"]
  /\ \E st \in {TimeoutFires(Table, i)} :
       /\ pendingRequests' = st.pending
       /\ outcome' = st.outcome
       /\ settleCount' = st.settle
  /\ lastEvent' = [NoEvent EXCEPT !.op = "timeout", !.id = i]
  /\ UNCHANGED <<process, child, killed, stdoutOpen, buffer, messageId, written>>
  /\ UNCHANGED <<framerVars, clientVars, loopVars, serviceVars>>

\* The child terminates, with any exit code or by a signal.
ChildDies ==
  /\ child = "running"
  /\ child' = "dead"
  /\ lastEvent' = [NoEvent EXCEPT !.op = "die"]
  /\ UNCHANGED <<process, killed, stdoutOpen, buffer, messageId, pendingRequests,
                 outcome, settleCount, timer, written>>
  /\ UNCHANGED <<framerVars, clientVars, loopVars, serviceVars>>

\* the 'exit' handler leaving this.process as it is
ExitEventKeepsProcess ==
  /\ child = "dead"
  /\ child' = "exited"
  /\ lastEvent' = [NoEvent EXCEPT !.op = "exit"]
  /\ UNCHANGED <<process, killed, stdoutOpen, buffer, messageId, pendingRequests,
                 outcome, settleCount, timer, written>>
  /\ UNCHANGED <<framerVars, clientVars, loopVars, serviceVars>>

\* The 'exit' handler (189-192)
ExitEvent ==
  /\ child = "dead"
  /\ child' = "exited"
  /\ process' = "null"
  /\ lastEvent' = [NoEvent EXCEPT !.op = "exit"]
  /\ UNCHANGED <<killed, stdoutOpen, buffer, messageId, pendingRequests,
                 outcome, settleCount, timer, written>>
  /\ UNCHANGED <<framerVars, clientVars, loopVars, serviceVars>>

\* The stdout stream of a terminated child ends.
StdoutEnd ==
  /\ child \in {"dead", "exited"}
  /\ stdoutOpen
  /\ stdoutOpen' = FALSE
  /\ lastEvent' = [NoEvent EXCEPT !.op = "end"]
  /\ UNCHANGED <<process, child, killed, buffer, messageId, pendingRequests,
                 outcome, settleCount, timer, written>>
  /\ UNCHANGED <<framerVars, clientVars, loopVars, serviceVars>>

\* a close() that signals the child and keeps this.process
CloseKeepsProcess ==
  /\ killed' = (killed \/ (process # "null" /\ child = "running"))
  /\ lastEvent' = [NoEvent EXCEPT !.op = "close"]
  /\ UNCHANGED <<process, child, stdoutOpen, buffer, messageId, pendingRequests,
                 outcome, settleCount, timer, written>>
  /\ UNCHANGED <<framerVars, clientVars, loopVars, serviceVars>>

\* StdioMCPConnection.close (235-241). kill() sets `killed` when the signal
\* could be sent; the child terminates later, or ignores SIGTERM.
Close ==
  /\ IF process # "null"
     THEN /\ killed' = (killed \/ child = "running")
          /\ process' = "null"
     ELSE UNCHANGED <<process, killed>>
  /\ lastEvent' = [NoEvent EXCEPT !.op = "close"]
  /\ UNCHANGED <<child, stdoutOpen, buffer, messageId, pendingRequests,
                 outcome, settleCount, timer, written>>
  /\ UNCHANGED <<framerVars, clientVars, loopVars, serviceVars>>

\* How spawn() (149) can end: the child runs; the command cannot be executed
\* (ENOENT, EACCES): spawn() returns a ChildProcess with its stdio streams and
\* 'error' is emitted later, never 'exit'; no descriptor is left (EMFILE,
\* ENFILE): it returns a ChildProcess without streams; or spawn() throws
\* (any other error of the system call, an invalid argument).
SpawnOutcomes == {"started", "failsLater", "noStreams", "throws"}

\* StdioMCPConnection.connect (146-195) for every outcome of spawn():
\* this.process is assigned what spawn() returned (149), connect throws when
\* stdout or stdin is missing (153-155), else it attaches its handlers and
\* returns (157-194).
ConnectSpawning(spawn) ==
  /\ child = "none" /\ process = "null"
  /\ process' = IF spawn = "throws" THEN "null" ELSE "child"
  /\ child' = CASE spawn = "started" -> "running"
                [] spawn = "failsLater" -> "failed"
                [] spawn = "noStreams" -> "unspawned"
                [] OTHER -> "none"
  /\ stdoutOpen' = (spawn = "started")
  /\ buffer' = <<>>
  /\ lastEvent' = [NoEvent EXCEPT !.op = "connect",
                                  !.ret = IF spawn \in {"started", "failsLater"} THEN "ok"
                                          ELSE "throw"]
  /\ UNCHANGED <<killed, messageId, pendingRequests, outcome, settleCount, timer, written>>
  /\ UNCHANGED <<framerVars, clientVars, loopVars, serviceVars>>

\* The 'error' handler (184-186) of a child that could not be executed: the
\* error is logged, this.process stays.
SpawnError ==
  /\ child = "failed"
  /\ child' = "errored"
  /\ lastEvent' = [NoEvent EXCEPT !.op = "error"]
  /\ UNCHANGED <<process, killed, stdoutOpen, buffer, messageId, pendingRequests,
                 outcome, settleCount, timer, written>>
  /\ UNCHANGED <<framerVars, clientVars, loopVars, serviceVars>>

Next ==
  \/ Connect
  \/ \E method \in Methods : Request(method)
  \/ \E chunk \in LineChunks : Data(chunk)
  \/ \E i \in Ids : Timeout(i)
  \/ ChildDies
  \/ ExitEvent
  \/ StdoutEnd
  \/ Close

\* The connection in every interleaving of its callbacks, fed whole lines.
Spec == Init /\ [][Next]_vars

\* Node's timers always fire: each armed timer eventually runs its callback.
FairSpec == Spec /\ \A i \in Ids : WF_vars(Timeout(i))

WireNext ==
  \/ Connect
  \/ \E method \in Methods : Request(method)
  \/ \E chunk \in ByteChunks : Data(chunk)

\* The connection of a live child whose output is cut into arbitrary chunks.
WireSpec == Init /\ [][WireNext]_vars

FramerNext ==
  \/ Connect
  \/ \E chunk \in FramerChunks : FramerData(chunk)

\* The framer alone, on every chunking of every short byte stream.
FramerSpec == Init /\ [][FramerNext]_vars


LifecycleNext ==
  \/ \E spawn \in SpawnOutcomes : ConnectSpawning(spawn)
  \/ SpawnError
  \/ \E method \in Methods : Request(method)
  \/ \E chunk \in LineChunks : Data(chunk)
  \/ \E i \in Ids : Timeout(i)
  \/ ChildDies
  \/ ExitEvent
  \/ StdoutEnd
  \/ Close

\* The connection from its construction on, for every outcome of spawn().
LifecycleSpec == Init /\ [][LifecycleNext]_vars

\* connect() (146-195) called again on a connection whose this.process is
\* null, after close() or after 'exit': this.process is assigned the new
\* ChildProcess (149), whose `killed` is false, and a new buffer and new
\* handlers are set. The child before keeps the handlers it got: what it
\* still writes is left out here, its termination and its 'exit' are not.
Reconnect ==
  /\ child # "none" /\ process = "null"
  /\ oldChild = "none"
  /\ oldChild' = child
  /\ process' = "child"
  /\ child' = "running"
  /\ killed' = FALSE
  /\ stdoutOpen' = TRUE
  /\ buffer' = <<>>
  /\ lastEvent' = [NoEvent EXCEPT !.op = "connect", !.ret = "again"]
  /\ UNCHANGED <<messageId, pendingRequests, outcome, settleCount, timer, written>>
  /\ UNCHANGED <<spawns, framerVars, clientVars, loopVars, storeVars, toolsCall, httpVars,
                 geminiQuery, modelError>>

\* The child of the connect() before terminates: by the SIGTERM of close(),
\* or by itself.
OldChildDies ==
  /\ oldChild = "running"
  /\ oldChild' = "dead"
  /\ lastEvent' = [NoEvent EXCEPT !.op = "dieOld"]
  /\ UNCHANGED <<process, child, killed, stdoutOpen, buffer, messageId, pendingRequests,
                 outcome, settleCount, timer, written>>
  /\ UNCHANGED <<spawns, framerVars, clientVars, loopVars, storeVars, toolsCall, httpVars,
                 geminiQuery, modelError>>

\* The 'exit' handler (189-192) that connect() attached to the child before:
\* it assigns this.process of the connection, whatever that holds by now.
OldExitEvent ==
  /\ oldChild = "dead"
  /\ oldChild' = "exited"
  /\ process' = "null"
  /\ lastEvent' = [NoEvent EXCEPT !.op = "exitOld"]
  /\ UNCHANGED <<child, killed, stdoutOpen, buffer, messageId, pendingRequests,
                 outcome, settleCount, timer, written>>
  /\ UNCHANGED <<spawns, framerVars, clientVars, loopVars, storeVars, toolsCall, httpVars,
                 geminiQuery, modelError>>

ReconnectNext ==
  \/ Connect
  \/ Reconnect
  \/ OldChildDies
  \/ OldExitEvent
  \/ \E method \in Methods : Request(method)
  \/ \E chunk \in LineChunks : Data(chunk)
  \/ \E i \in Ids : Timeout(i)
  \/ ChildDies
  \/ ExitEvent
  \/ StdoutEnd
  \/ Close

\* The connection connected, closed or exited, and connected once more.
ReconnectSpec == Init /\ [][ReconnectNext]_vars


\* ------------------------------------------------- EnhancedMCPClient
\* How callToolImpl can end. StdioMCPConnection.callToolImpl (214-230): the
\* request is refused (not connected), answered with a result that has a
\* content, answered with an error, answered without a result (response.content
\* throws TypeError), or timed out. HttpMCPConnection.callToolImpl (52-63):
\* a 2xx JSON body, a non-2xx status, a failed fetch, a body that is no JSON.
StdioImplOutcomes(state) ==
  IF state = "connected" THEN {"ok", "serverError", "noResult", "timeout"}
  ELSE {"notConnected"}
HttpImplOutcomes == {"ok", "httpStatus", "fetchFailed", "badJson"}

\* a callTool that returns a success result whatever callToolImpl did
BaseCallToolSwallows(impl) == "success"

\* BaseMCPConnection.callTool (part_002 30-45): callToolImpl's result is
\* returned, anything it throws becomes an error ToolResult.
BaseCallTool(impl) == IF impl = "ok" THEN "success" ELSE "error"

\* Map.set(name, connection): a new key goes to the end of the iteration
\* order, a key the map has keeps its place.
KeysAfterSet(keys, name) ==
  IF \E k \in 1..Len(keys) : keys[k] = name THEN keys ELSE Append(keys, name)

\* a pass that registers the connection before connect() has succeeded
InitializeStdioServerSetsFirst(name, valid, spawned) ==
  /\ stdioServers' = IF valid THEN [stdioServers EXCEPT ![name] = "connected"]
                     ELSE stdioServers
  /\ stdioKeys' = IF valid THEN KeysAfterSet(stdioKeys, name) ELSE stdioKeys
  /\ callResult' = [NoCall EXCEPT !.op = "initStdio", !.server = name,
                                  !.ret = IF valid /\ spawned THEN "registered" ELSE "logged"]
  /\ UNCHANGED <<httpServers, httpKeys, discoveredTools, task>>
  /\ UNCHANGED <<connVars, framerVars, loopVars, serviceVars>>

\* One pass of the loop of initialize (49-61) for a stdio configuration:
\* initializeStdioServer (72-88) throws on a missing command or args (~valid)
\* and when connect() throws (part_003 153-155: the child has no stdout or
\* stdin, ~spawned); else it registers the connection. The catch of initialize
\* logs what was thrown, and the loop goes on.
InitializeStdioServer(name, valid, spawned) ==
  /\ \E ok \in {valid /\ spawned} :
       /\ stdioServers' = IF ok THEN [stdioServers EXCEPT ![name] = "connected"]
                          ELSE stdioServers
       /\ stdioKeys' = IF ok THEN KeysAfterSet(stdioKeys, name) ELSE stdioKeys
       /\ callResult' = [NoCall EXCEPT !.op = "initStdio", !.server = name,
                                       !.ret = IF ok THEN "registered" ELSE "logged"]
  /\ UNCHANGED <<httpServers, httpKeys, discoveredTools, task>>
  /\ UNCHANGED <<connVars, framerVars, loopVars, serviceVars>>

\* One pass of the loop of initialize for an http configuration:
\* initializeHttpServer (93-109) throws on a missing url and when connect(),
\* a listTools round trip (part_003 27-39), fails.
InitializeHttpServer(name, valid, reachable) ==
  /\ \E ok \in {valid /\ reachable} :
       /\ httpServers' = IF ok THEN [httpServers EXCEPT ![name] = "present"]
                         ELSE httpServers
       /\ httpKeys' = IF ok THEN KeysAfterSet(httpKeys, name) ELSE httpKeys
       /\ callResult' = [NoCall EXCEPT !.op = "initHttp", !.server = name,
                                       !.ret = IF ok THEN "registered" ELSE "logged"]
  /\ UNCHANGED <<stdioServers, stdioKeys, discoveredTools, task>>
  /\ UNCHANGED <<connVars, framerVars, loopVars, serviceVars>>

\* One pass of the loop of initialize for a configuration whose transport is
\* neither 'stdio' nor 'http' (55-57): logged, nothing constructed.
InitializeUnknownTransport(name) ==
  /\ callResult' = [NoCall EXCEPT !.op = "initUnknown", !.server = name, !.ret = "logged"]
  /\ UNCHANGED <<stdioServers, httpServers, stdioKeys, httpKeys, discoveredTools, task>>
  /\ UNCHANGED <<connVars, framerVars, loopVars, serviceVars>>

\* The child of a registered stdio connection exits:
\* its 'exit' handler (part_003 189-192) sets this.process = null.
ServerExits(name) ==
  /\ stdioServers[name] = "connected"
  /\ stdioServers' = [stdioServers EXCEPT ![name] = "closed"]
  /\ callResult' = [NoCall EXCEPT !.op = "exit", !.server = name]
  /\ UNCHANGED <<httpServers, stdioKeys, httpKeys, discoveredTools, task>>
  /\ UNCHANGED <<connVars, framerVars, loopVars, serviceVars>>

\* EnhancedMCPClient.callTool (166-178), to the end of the call: impl is how
\* the connection's callToolImpl ends.
CallTool(serverName, impl) ==
  /\ IF stdioServers[serverName] # "absent"
     THEN /\ impl \in StdioImplOutcomes(stdioServers[serverName])
          /\ callResult' = [NoCall EXCEPT !.op = "callTool", !.server = serverName,
                                          !.impl = impl, !.ret = BaseCallTool(impl)]
     ELSE IF httpServers[serverName] # "absent"
     THEN /\ impl \in HttpImplOutcomes
          /\ callResult' = [NoCall EXCEPT !.op = "callTool", !.server = serverName,
                                          !.impl = impl, !.ret = BaseCallTool(impl)]
     ELSE /\ impl = "notFound"
          /\ callResult' = [NoCall EXCEPT !.op = "callTool", !.server = serverName,
                                          !.impl = impl, !.ret = "throw"]
  /\ UNCHANGED <<stdioServers, httpServers, stdioKeys, httpKeys, discoveredTools, task>>
  /\ UNCHANGED <<connVars, framerVars, loopVars, serviceVars>>

\* the registered connections, as shutdown's two loops meet them
Registered ==
  {<<"stdio", stdioKeys[k]>> : k \in 1..Len(stdioKeys)}
    \cup {<<"http", httpKeys[k]>> : k \in 1..Len(httpKeys)}

\* a shutdown that forgets the discovered tools
ShutdownKeepsTools ==
  /\ task.pc = "idle"
  /\ stdioServers' = [n \in ServerNames |-> "absent"]
  /\ httpServers' = [n \in ServerNames |-> "absent"]
  /\ stdioKeys' = <<>>
  /\ httpKeys' = <<>>
  /\ callResult' = [NoCall EXCEPT !.op = "shutdown", !.ret = "ok", !.closed = Registered]
  /\ UNCHANGED <<discoveredTools, task>>
  /\ UNCHANGED <<connVars, framerVars, loopVars, serviceVars>>

\* EnhancedMCPClient.shutdown (183-199), called while no initialize() or
\* discoverTools() is in progress: close() of every stdio, then of every http
\* connection (neither close() throws: part_003 68-70, 235-241), then both
\* maps cleared and the tool set replaced by an empty one.
Shutdown ==
  /\ task.pc = "idle"
  /\ stdioServers' = [n \in ServerNames |-> "absent"]
  /\ httpServers' = [n \in ServerNames |-> "absent"]
  /\ stdioKeys' = <<>>
  /\ httpKeys' = <<>>
  /\ discoveredTools' = <<>>
  /\ callResult' = [NoCall EXCEPT !.op = "shutdown", !.ret = "ok", !.closed = Registered]
  /\ UNCHANGED task
  /\ UNCHANGED <<connVars, framerVars, loopVars, serviceVars>>

ImplOutcomes ==
  StdioImplOutcomes("connected") \cup StdioImplOutcomes("closed") \cup HttpImplOutcomes
    \cup {"notFound"}

ClientNext ==
  \/ \E name \in ServerNames, valid \in BOOLEAN, spawned \in BOOLEAN :
       InitializeStdioServer(name, valid, spawned)
  \/ \E name \in ServerNames, valid \in BOOLEAN, reachable \in BOOLEAN :
       InitializeHttpServer(name, valid, reachable)
  \/ \E name \in ServerNames : ServerExits(name)
  \/ \E name \in ServerNames, impl \in ImplOutcomes : CallTool(name, impl)
  \/ Shutdown

\* The client's registry under every order of initialize passes, exits, calls
\* and shutdowns (the tools are left aside: no discovery runs).
ClientSpec == Init /\ [][ClientNext]_vars


\* ------------------------------------------------- discovery
\* The configurations given to initialize: server A on stdio, servers A and
\* A_b on http, and a configuration with a transport the client does not know.
ServerConfigs ==
  {[name |-> "A", transport |-> "stdio"], [name |-> "A", transport |-> "http"],
   [name |-> "A_b", transport |-> "http"], [name |-> "A_b", transport |-> "sse"]}
\* what a server answers to tools/list
ToolLists == {<<>>, <<"search">>, <<"b_search">>}
Failed == [ok |-> FALSE, tools |-> <<>>]
\* connection.listTools(): it throws on a stdio connection that is not
\* connected (part_003 246-249); else the server's answer decides.
ListToolsOutcomes(state) ==
  IF state = "closed" THEN {Failed}
  ELSE {Failed} \cup {[ok |-> TRUE, tools |-> t] : t \in ToolLists}

\* a public name without the server's name
PublicNameToolOnly(serverName, toolName) == "mcp_" \o toolName

\* the public name given at 144: `mcp_${serverName}_${tool.name}`
PublicName(serverName, toolName) == "mcp_" \o serverName \o "_" \o toolName

\* new MCPToolWrapper(serverName, tool.name, this, name, ..) (140-147); from
\* is the map the connection that listed the tool stood in.
Wrapper(serverName, toolName, from) ==
  [serverName |-> serverName, toolName |-> toolName,
   name |-> PublicName(serverName, toolName), from |-> from]

\* the loop at 138-149 over the tools one connection listed
Wrap(serverName, tools, from) ==
  [k \in 1..Len(tools) |-> Wrapper(serverName, tools[k], from)]

InDiscovery == task.pc \in {"stdio", "http"}
\* the map the suspended helper iterates, and its keys
TaskKeys == IF task.pc = "stdio" THEN stdioKeys ELSE httpKeys
TaskState(name) == IF task.pc = "stdio" THEN stdioServers[name] ELSE httpServers[name]

\* initialize(configs) is called (46-47); the configurations come one per
\* pass, any number of them.
Initialize ==
  /\ task.pc = "idle"
  /\ task' = [Idle EXCEPT !.pc = "connect", !.caller = "initialize"]
  /\ callResult' = [NoCall EXCEPT !.op = "initialize"]
  /\ UNCHANGED <<stdioServers, httpServers, stdioKeys, httpKeys, discoveredTools>>
  /\ UNCHANGED <<connVars, framerVars, loopVars, serviceVars>>

\* the body of the loop of initialize (49-61) for one configuration
InitializePass(config, valid, connected) ==
  /\ task.pc = "connect"
  /\ IF config.transport = "stdio" THEN InitializeStdioServer(config.name, valid, connected)
     ELSE IF config.transport = "http"
     THEN InitializeHttpServer(config.name, valid, connected)
     ELSE InitializeUnknownTransport(config.name)

\* discoverTools() is called, by initialize after its loop (64) or from
\* outside: the tool set is replaced by an empty array (115) and the helper
\* starts on the stdio map (118), where it suspends.
DiscoverTools(caller) ==
  /\ \/ caller = "initialize" /\ task.pc = "connect"
     \/ caller = "discoverTools" /\ task.pc = "idle"
  /\ discoveredTools' = <<>>
  /\ task' = [pc |-> "stdio", caller |-> caller, idx |-> 1,
              pass |-> [NoPass EXCEPT !.prev = discoveredTools]]
  /\ callResult' = [NoCall EXCEPT !.op = "discoverBegin"]
  /\ UNCHANGED <<stdioServers, httpServers, stdioKeys, httpKeys>>
  /\ UNCHANGED <<connVars, framerVars, loopVars, serviceVars>>

\* a helper whose catch stands around the loop: the first failure ends it
ListToolsSettlesAbortOnFail(answer) ==
  /\ InDiscovery /\ task.idx <= Len(TaskKeys)
  /\ \E name \in {TaskKeys[task.idx]} :
       /\ answer \in ListToolsOutcomes(TaskState(name))
       /\ discoveredTools' =
            IF answer.ok THEN discoveredTools \o Wrap(name, answer.tools, task.pc)
            ELSE discoveredTools
       /\ task' = [task EXCEPT
                     !.idx = IF answer.ok THEN @ + 1 ELSE Len(TaskKeys) + 1,
                     !.pass.listed = Append(@, [serverName |-> name, from |-> task.pc,
                                                ok |-> answer.ok, tools |-> answer.tools])]
  /\ callResult' = [NoCall EXCEPT !.op = "listTools"]
  /\ UNCHANGED <<stdioServers, httpServers, stdioKeys, httpKeys>>
  /\ UNCHANGED <<connVars, framerVars, loopVars, serviceVars>>

\* The listTools() the helper awaits (135) settles: its tools are wrapped and
\* pushed (138-149), or its failure is logged (150-152); the loop goes on to
\* the next connection of the map.
ListToolsSettles(answer) ==
  /\ InDiscovery /\ task.idx <= Len(TaskKeys)
  /\ \E name \in {TaskKeys[task.idx]} :
       /\ answer \in ListToolsOutcomes(TaskState(name))
       /\ discoveredTools' =
            IF answer.ok THEN discoveredTools \o Wrap(name, answer.tools, task.pc)
            ELSE discoveredTools
       /\ task' = [task EXCEPT
                     !.idx = @ + 1,
                     !.pass.listed = Append(@, [serverName |-> name, from |-> task.pc,
                                                ok |-> answer.ok, tools |-> answer.tools])]
  /\ callResult' = [NoCall EXCEPT !.op = "listTools"]
  /\ UNCHANGED <<stdioServers, httpServers, stdioKeys, httpKeys>>
  /\ UNCHANGED <<connVars, framerVars, loopVars, serviceVars>>

\* The helper has met every connection of its map and returns: discoverTools
\* goes on with the http map (121), or returns the tool set (123) to
\* initialize, which returns (66), or to its caller.
HelperReturns ==
  /\ InDiscovery /\ task.idx > Len(TaskKeys)
  /\ IF task.pc = "stdio"
     THEN /\ task' = [task EXCEPT !.pc = "http", !.idx = 1]
          /\ callResult' = [NoCall EXCEPT !.op = "helperReturns"]
     ELSE /\ task' = Idle
          /\ callResult' = [NoCall EXCEPT !.op = task.caller, !.ret = "ok",
                                          !.pass = task.pass]
  /\ UNCHANGED <<stdioServers, httpServers, stdioKeys, httpKeys, discoveredTools>>
  /\ UNCHANGED <<connVars, framerVars, loopVars, serviceVars>>

\* getTools() (159-161) from another flow of control, at any moment: it
\* returns this.discoveredTools as it is now.
GetTools ==
  /\ task' = IF InDiscovery THEN [task EXCEPT !.pass.seen = @ \cup {discoveredTools}]
             ELSE task
  /\ callResult' = [NoCall EXCEPT !.op = "getTools"]
  /\ UNCHANGED <<stdioServers, httpServers, stdioKeys, httpKeys, discoveredTools>>
  /\ UNCHANGED <<connVars, framerVars, loopVars, serviceVars>>

\* The connection EnhancedMCPClient.callTool (166-178) hands a call to: the
\* one in the stdio map under the name, else the one in the http map.
Route(serverName) ==
  IF stdioServers[serverName] # "absent" THEN "stdio"
  ELSE IF httpServers[serverName] # "absent" THEN "http"
  ELSE "none"

\* MCPToolWrapper.execute (27-30) of the k-th tool of the tool set:
\* validateArgs(args) throws or returns; then
\* mcpClient.callTool(this.serverName, this.toolName, args).
Execute(k, argsValid) ==
  /\ k \in 1..Len(discoveredTools)
  /\ \E w \in {discoveredTools[k]} :
       callResult' =
         IF argsValid
         THEN [NoCall EXCEPT !.op = "execute", !.server = w.serverName,
                             !.tool = w.toolName, !.from = w.from,
                             !.routed = Route(w.serverName)]
         ELSE [NoCall EXCEPT !.op = "execute", !.from = w.from, !.ret = "throw"]
  /\ UNCHANGED <<stdioServers, httpServers, stdioKeys, httpKeys, discoveredTools, task>>
  /\ UNCHANGED <<connVars, framerVars, loopVars, serviceVars>>

DiscoveryNext ==
  \/ Initialize
  \/ \E config \in ServerConfigs, valid \in BOOLEAN, connected \in BOOLEAN :
       InitializePass(config, valid, connected)
  \/ \E caller \in {"initialize", "discoverTools"} : DiscoverTools(caller)
  \/ \E name \in ServerNames : ServerExits(name)
  \/ \E answer \in ListToolsOutcomes("connected") : ListToolsSettles(answer)
  \/ HelperReturns
  \/ GetTools
  \/ \E k \in 1..Len(discoveredTools), argsValid \in BOOLEAN : Execute(k, argsValid)
  \/ Shutdown

\* The client's tool set: initialize, discoverTools and shutdown called one
\* after the other, each suspended at its awaits, where getTools and the
\* execution of a tool may run.
DiscoverySpec == Init /\ [][DiscoveryNext]_vars


\* ------------------------------------------------- agentic scheduler
\* How the execute() of a requested tool can end (MCPToolWrapper.execute
\* 27-30, EnhancedMCPClient.callTool 166-178): validateArgs throws; no
\* connection stands under the server name; or the connection's callTool runs.
ExecuteCases ==
  {[argsValid |-> FALSE, routed |-> "", impl |-> ""],
   [argsValid |-> TRUE, routed |-> "none", impl |-> "notFound"]}
    \cup {[argsValid |-> TRUE, routed |-> "stdio", impl |-> i] :
            i \in StdioImplOutcomes("connected") \cup StdioImplOutcomes("closed")}
    \cup {[argsValid |-> TRUE, routed |-> "http", impl |-> i] : i \in HttpImplOutcomes}

\* what execute() gives its caller: a ToolResult's status, or "throw"
ExecuteRet(c) ==
  IF ~c.argsValid \/ c.routed = "none" THEN "throw" ELSE BaseCallTool(c.impl)

\* what the model service answers: a final text, a request for 1..MaxCalls
\* tool calls, or an error
ModelResponses ==
  {[kind |-> "final", calls |-> 0], [kind |-> "error", calls |-> 0]}
    \cup {[kind |-> "tools", calls |-> n] : n \in 1..MaxCalls}

UserMessage == [role |-> "user", request |-> 0, status |-> ""]
ModelMessage(n) == [role |-> "model", request |-> n, status |-> ""]
\* the message of the ToolResult of the j-th request of a turn
ToolMessage(j, status) == [role |-> "tool", request |-> j, status |-> status]

TurnInProgress == runState = "Running" /\ requests > 0

\* run(prompt, history, {maxTurns: n}): Running, with the conversation so far
Run(n) ==
  /\ runState = "Idle"
  /\ runState' = "Running"
  /\ maxTurns' = n
  /\ messages' = <<UserMessage>>
  /\ UNCHANGED <<turnsUsed, modelCalls, toolCallsCount, requests, results, arrived, lastCall>>
  /\ UNCHANGED <<connVars, framerVars, clientVars, serviceVars>>

\* Steps (1)-(4) of a turn: the conversation is submitted to the model
\* service and its response inspected. An error of the service ends the run
\* as Failed; a response without tool calls as Completed; else every
\* requested tool call is issued, all at once.
ModelResponds(response) ==
  /\ runState = "Running" /\ requests = 0
  /\ modelCalls' = modelCalls + 1
  /\ IF response.kind = "error"
     THEN /\ runState' = "Failed"
          /\ UNCHANGED <<messages, requests, results, arrived, toolCallsCount>>
     ELSE IF response.kind = "final"
     THEN /\ runState' = "Completed"
          /\ messages' = Append(messages, ModelMessage(0))
          /\ UNCHANGED <<requests, results, arrived, toolCallsCount>>
     ELSE /\ requests' = response.calls
          /\ results' = [j \in 1..response.calls |-> "pending"]
          /\ arrived' = <<>>
          /\ toolCallsCount' = toolCallsCount + response.calls
          /\ UNCHANGED <<runState, messages>>
  /\ UNCHANGED <<maxTurns, turnsUsed, lastCall>>
  /\ UNCHANGED <<connVars, framerVars, clientVars, serviceVars>>

\* Step (4): the call of the j-th request completes, in any order among the
\* calls of the turn: the ToolResult execute() returned is kept for the
\* request, and what it threw is turned into a ToolResult with status error.
ToolCompletes(j, c) ==
  /\ TurnInProgress /\ j \in 1..requests /\ results[j] = "pending"
  /\ \E ret \in {ExecuteRet(c)} :
       /\ results' = [results EXCEPT ![j] = IF ret = "throw" THEN "error" ELSE ret]
       /\ lastCall' = [request |-> j, argsValid |-> c.argsValid, routed |-> c.routed,
                       impl |-> c.impl, ret |-> ret]
  /\ arrived' = Append(arrived, j)
  /\ UNCHANGED <<runState, maxTurns, turnsUsed, modelCalls, toolCallsCount, messages, requests>>
  /\ UNCHANGED <<connVars, framerVars, clientVars, serviceVars>>

\* a scheduler that appends the results as they came in
TurnEndsInArrivalOrder ==
  /\ TurnInProgress /\ \A j \in 1..requests : results[j] # "pending"
  /\ messages' = Append(messages, ModelMessage(requests))
                   \o [k \in 1..requests |-> ToolMessage(arrived[k], results[arrived[k]])]
  /\ turnsUsed' = turnsUsed + 1
  /\ runState' = IF turnsUsed + 1 = maxTurns THEN "MaxTurnsExceeded" ELSE "Running"
  /\ requests' = 0
  /\ UNCHANGED <<maxTurns, modelCalls, toolCallsCount, results, arrived, lastCall>>
  /\ UNCHANGED <<connVars, framerVars, clientVars, serviceVars>>

\* a scheduler that stops only once the counter has passed the maximum
TurnEndsOneMore ==
  /\ TurnInProgress /\ \A j \in 1..requests : results[j] # "pending"
  /\ messages' = Append(messages, ModelMessage(requests))
                   \o [j \in 1..requests |-> ToolMessage(j, results[j])]
  /\ turnsUsed' = turnsUsed + 1
  /\ runState' = IF turnsUsed + 1 > maxTurns THEN "MaxTurnsExceeded" ELSE "Running"
  /\ requests' = 0
  /\ UNCHANGED <<maxTurns, modelCalls, toolCallsCount, results, arrived, lastCall>>
  /\ UNCHANGED <<connVars, framerVars, clientVars, serviceVars>>

\* Step (5), once every call of the turn has completed: the model's
\* tool-call message and the ToolResults, in the order of the requests, are
\* appended, the turn counter is incremented, and the run goes on unless the
\* counter has reached maxTurns: then it ends as MaxTurnsExceeded.
TurnEnds ==
  /\ TurnInProgress /\ \A j \in 1..requests : results[j] # "pending"
  /\ messages' = Append(messages, ModelMessage(requests))
                   \o [j \in 1..requests |-> ToolMessage(j, results[j])]
  /\ turnsUsed' = turnsUsed + 1
  /\ runState' = IF turnsUsed + 1 = maxTurns THEN "MaxTurnsExceeded" ELSE "Running"
  /\ requests' = 0
  /\ UNCHANGED <<maxTurns, modelCalls, toolCallsCount, results, arrived, lastCall>>
  /\ UNCHANGED <<connVars, framerVars, clientVars, serviceVars>>

LoopNext ==
  \/ \E n \in 1..MaxTurns : Run(n)
  \/ \E response \in ModelResponses : ModelResponds(response)
  \/ \E j \in 1..MaxCalls, c \in ExecuteCases : ToolCompletes(j, c)
  \/ TurnEnds

\* One run of the scheduler, for every maxTurns, every answer of the model
\* service, and every outcome and completion order of the tool calls.
LoopSpec == Init /\ [][LoopNext]_vars


\* ------------------------------------------------- conversation store
\* The store (managers/ConversationManager) after section 4.5 of the
\* specification: its source is not part of the files modelled here.
\* createSession(): the identifiers it may allocate are those of no session
FreshIds == SessionIds \ sessions

\* getHistory(id): the messages of the session, none for an unknown id
GetHistory(id) == IF id \in sessions THEN histories[id] ELSE <<>>

\* an addMessage that puts the message in front
AddMessagePrepends(h, id, message) == [h EXCEPT ![id] = <<message>> \o @]

\* addMessage(id, message): appends
AddMessage(h, id, message) == [h EXCEPT ![id] = Append(@, message)]

\* what a caller may add: a user's or a model's message
StoreMessages == {UserMessage, ModelMessage(0)}

\* every other variable than the store's and the handler's
notStore == <<connVars, lifeVars, framerVars, clientVars, loopVars, toolsCall, httpVars,
              geminiQuery,
              modelError>>

\* createSession() by any caller; id is the identifier it returns
CreateSession(id) ==
  /\ id \in FreshIds
  /\ sessions' = sessions \cup {id}
  /\ histories' = [histories EXCEPT ![id] = <<>>]
  /\ storeOp' = [NoStoreOp EXCEPT !.op = "createSession", !.by = "caller", !.id = id]
  /\ UNCHANGED <<handling, notStore>>

\* getHistory(id) by any caller, for any id
GetHistoryCall(id) ==
  /\ storeOp' = [NoStoreOp EXCEPT !.op = "getHistory", !.by = "caller", !.id = id,
                                  !.ret = GetHistory(id)]
  /\ UNCHANGED <<sessions, histories, handling, notStore>>

\* addMessage(id, message) by any caller
AddMessageCall(id, message) ==
  /\ Len(histories[id]) < MaxHistory
  /\ sessions' = sessions \cup {id}
  /\ histories' = AddMessage(histories, id, message)
  /\ storeOp' = [NoStoreOp EXCEPT !.op = "addMessage", !.by = "caller", !.id = id,
                                  !.added = <<message>>]
  /\ UNCHANGED <<handling, notStore>>


\* ------------------------------------------------- QueryHandler
\* What agenticLoop.run() (146-157) can give handle. The scheduler's source is
\* not part of the files modelled here; after sections 4.4 and 6 of the
\* specification a run returns {finalOutput, messages, ..} in each of its
\* final states, with the messages the run has made (as `messages` in
\* LoopSpec): a run that ends Failed at its first model call has made the
\* user's message. The last outcome is a fault that reaches handle as a
\* rejection of the promise: the catch at 170 stands for it.
RunResults ==
  {[thrown |-> FALSE, state |-> "Completed", finalOutput |-> "answer", error |-> "",
    toolCallsCount |-> 0, messages |-> <<UserMessage, ModelMessage(0)>>],
   [thrown |-> FALSE, state |-> "MaxTurnsExceeded", finalOutput |-> "partial answer",
    error |-> "", toolCallsCount |-> 1,
    messages |-> <<UserMessage, ModelMessage(1), ToolMessage(1, "success")>>],
   [thrown |-> FALSE, state |-> "Failed", finalOutput |-> "Error: model service unavailable",
    error |-> "", toolCallsCount |-> 0, messages |-> <<UserMessage>>],
   [thrown |-> TRUE, state |-> "Failed", finalOutput |-> "",
    error |-> "model service unavailable", toolCallsCount |-> 0, messages |-> <<>>]}

\* createTextResponse (responseFormatter.ts 9-18)
CreateTextResponse(text, session, stats) ==
  [type |-> "text", text |-> text, session |-> session, stats |-> stats]

\* formatResponse (180-199): the session tag when there is a sessionId, the
\* statistics when tools were called, then result.finalOutput
FormatResponse(result, sessionId) ==
  CreateTextResponse(result.finalOutput, sessionId, result.toolCallsCount > 0)

\* the loop at 161-163: addMessage for each message of the result, in order
RECURSIVE AddMessages(_, _, _)
AddMessages(h, id, msgs) ==
  IF msgs = <<>> THEN h ELSE AddMessages(AddMessage(h, id, Head(msgs)), id, Tail(msgs))

\* the statements after the await without the try/catch around them
HandleAfterRunNoCatch(hd, result, h) ==
  IF result.thrown
  THEN [thrown |-> TRUE, histories |-> h, added |-> <<>>, ops |-> hd.ops,
        response |-> NoResponse]
  ELSE [thrown |-> FALSE, histories |-> h, added |-> <<>>, ops |-> hd.ops,
        response |-> FormatResponse(result, hd.sessionId)]

\* the statements after the await without the test of enableConversations
HandleAfterRunIgnoresEnable(hd, result, h) ==
  IF result.thrown
  THEN [thrown |-> FALSE, histories |-> h, added |-> <<>>, ops |-> hd.ops,
        response |-> CreateTextResponse("Error in agentic loop: " \o result.error,
                                        NoSession, FALSE)]
  ELSE IF hd.sessionId # NoSession
  THEN [thrown |-> FALSE, histories |-> AddMessages(h, hd.sessionId, result.messages),
        added |-> result.messages,
        ops |-> IF result.messages = <<>> THEN hd.ops ELSE Append(hd.ops, "addMessage"),
        response |-> FormatResponse(result, hd.sessionId)]
  ELSE [thrown |-> FALSE, histories |-> h, added |-> <<>>, ops |-> hd.ops,
        response |-> FormatResponse(result, hd.sessionId)]

\* QueryHandler.handle after its await (159-174), for the call hd, what
\* run() gave and the histories h of the store: the messages of the result
\* are added to the session when conversations are enabled, and the formatted
\* result is returned; what run() threw is caught and returned as a text.
HandleAfterRun(hd, result, h) ==
  IF result.thrown
  THEN [thrown |-> FALSE, histories |-> h, added |-> <<>>, ops |-> hd.ops,
        response |-> CreateTextResponse("Error in agentic loop: " \o result.error,
                                        NoSession, FALSE)]
  ELSE IF hd.enable /\ hd.sessionId # NoSession
  THEN [thrown |-> FALSE, histories |-> AddMessages(h, hd.sessionId, result.messages),
        added |-> result.messages,
        ops |-> IF result.messages = <<>> THEN hd.ops ELSE Append(hd.ops, "addMessage"),
        response |-> FormatResponse(result, hd.sessionId)]
  ELSE [thrown |-> FALSE, histories |-> h, added |-> <<>>, ops |-> hd.ops,
        response |-> FormatResponse(result, hd.sessionId)]

\* QueryHandler.handle up to its await (131-157): with conversations enabled
\* a session is created when the input names none, and the history of the
\* session is read; then run() is called. id is the sessionId of the call.
HandleBegins(enable, input, id) ==
  /\ handling.pc = "idle"
  /\ IF enable /\ input = NoSession
     THEN /\ id \in FreshIds
          /\ sessions' = sessions \cup {id}
          /\ histories' = [histories EXCEPT ![id] = <<>>]
          /\ handling' = [pc |-> "run", enable |-> TRUE, sessionId |-> id,
                          conversationHistory |-> <<>>,
                          ops |-> <<"createSession", "getHistory">>]
     ELSE /\ id = input
          /\ UNCHANGED <<sessions, histories>>
          /\ handling' = [pc |-> "run", enable |-> enable, sessionId |-> id,
                          conversationHistory |-> IF enable THEN GetHistory(id) ELSE <<>>,
                          ops |-> IF enable THEN <<"getHistory">> ELSE <<>>]
  /\ storeOp' = [NoStoreOp EXCEPT !.op = "handleBegins", !.by = "handle", !.id = id,
                                  !.enable = enable]
  /\ UNCHANGED notStore

\* The run() handle awaits settles, and handle goes on to its end.
RunSettles(result) ==
  /\ handling.pc = "run"
  /\ \E r \in {HandleAfterRun(handling, result, histories)} :
       /\ \A id \in SessionIds : Len(r.histories[id]) <= MaxHistory
       /\ histories' = r.histories
       /\ sessions' = IF r.added = <<>> THEN sessions ELSE sessions \cup {handling.sessionId}
       /\ storeOp' = [op |-> "handle", by |-> "handle", id |-> handling.sessionId,
                      ret |-> handling.conversationHistory, added |-> r.added,
                      enable |-> handling.enable, ops |-> r.ops, run |-> result,
                      thrown |-> r.thrown, response |-> r.response]
  /\ handling' = NotHandling
  /\ UNCHANGED notStore

HandlerNext ==
  \/ \E id \in SessionIds : CreateSession(id)
  \/ \E id \in SessionIds : GetHistoryCall(id)
  \/ \E id \in SessionIds, message \in StoreMessages : AddMessageCall(id, message)
  \/ \E enable \in BOOLEAN, input, id \in SessionIds \cup {NoSession} :
       HandleBegins(enable, input, id)
  \/ \E result \in RunResults : RunSettles(result)

\* One handle() at a time, suspended at its run(), and the store used by any
\* other caller in between.
HandlerSpec == Init /\ [][HandlerNext]_vars


\* ------------------------------------------------- tools/call, in detail
\* args.msg of a call, and the text a server puts in its answer
Texts == {"hi", "ho"}
\* the `error` member of a response: absent, null, an object with a message,
\* an object without one
ErrorFields == {"absent", "null", "message", "noMessage"}
\* the `result` member of a response: absent, null, an object whose content
\* is one text part (the server of scenario A), an object without content
ResultFields == {"absent", "null", "content", "noContent"}
\* the parsed lines that can reach handleResponse; text is the text of the
\* part of result.content, and of error.message
Responses == [id : Ids, error : ErrorFields, result : ResultFields, text : Texts]

\* `if (message.error)` (275): an absent and a null member are falsy
HasError(message) == message.error \notin {"absent", "null"}

\* a handleResponse that resolves whatever the message holds
ResponseSettlesIgnoresError(message) ==
  [kind |-> "resolve", value |-> message.result, text |-> message.text]

\* handleResponse (275-279) for the entry of the message's id:
\* reject(new Error(message.error.message || 'MCP request failed')), or
\* resolve(message.result)
ResponseSettles(message) ==
  IF HasError(message)
  THEN [kind |-> "reject", value |-> "absent",
        text |-> IF message.error = "message" THEN message.text ELSE "MCP request failed"]
  ELSE [kind |-> "resolve", value |-> message.result, text |-> message.text]

\* JSON.stringify(response.content) (227) of the content of scenario A,
\* [{type: 'text', text}]
Stringify(text) == "[{\"type\":\"text\",\"text\":\"" \o text \o "\"}]"

\* callToolImpl (214-230) once the promise of sendRequest has settled: a
\* rejection goes through; `response.content` throws TypeError when the
\* response is undefined or null; else a success ToolResult is returned,
\* its content undefined when the response has none.
CallToolImpl(settled) ==
  IF settled.kind = "reject"
  THEN [kind |-> "throw", error |-> settled.text, result |-> NoToolResult]
  ELSE IF settled.value \in {"absent", "null"}
  THEN [kind |-> "throw",
        error |-> "Cannot read properties of "
                    \o (IF settled.value = "absent" THEN "undefined" ELSE "null")
                    \o " (reading 'content')",
        result |-> NoToolResult]
  ELSE [kind |-> "return", error |-> "",
        result |-> [status |-> "success",
                    content |-> IF settled.value = "content" THEN Stringify(settled.text)
                                ELSE "",
                    hasContent |-> settled.value = "content"]]

\* BaseMCPConnection.callTool (part_002 30-45) with the ToolResult spelled
\* out: what callToolImpl returned, or an error ToolResult with the message
\* of what it threw
BaseCallToolResult(impl) ==
  IF impl.kind = "return" THEN impl.result
  ELSE [status |-> "error", content |-> "Tool execution failed: " \o impl.error,
        hasContent |-> TRUE]

notToolsCall == <<connVars, lifeVars,
    framerVars, clientVars, loopVars, storeVars, httpVars,
                  geminiQuery, modelError>>

\* callTool(name, {msg}) on a connected connection: the request is written
\* with the id taken, and its entry set (214-223, 246-256)
ToolsCallBegins(id, msg) ==
  /\ toolsCall.pc # "pending"
  /\ toolsCall' = [NoToolsCall EXCEPT !.pc = "pending", !.id = id, !.msg = msg]
  /\ UNCHANGED notToolsCall

\* A parsed line reaches handleResponse (270-281) while the call is pending:
\* with the id of the call it settles its promise, and callTool ends;
\* with another id it finds no entry and is dropped.
ToolsCallResponse(message) ==
  /\ toolsCall.pc = "pending"
  /\ IF message.id = toolsCall.id
     THEN \E impl \in {CallToolImpl(ResponseSettles(message))} :
            toolsCall' = [toolsCall EXCEPT !.pc = "done", !.message = message,
                                           !.impl = impl.kind,
                                           !.ret = BaseCallToolResult(impl)]
     ELSE toolsCall' = [toolsCall EXCEPT !.dropped = message.id]
  /\ UNCHANGED notToolsCall

\* The timer of the call fires while it is pending (258-263).
ToolsCallTimeout ==
  /\ toolsCall.pc = "pending"
  /\ \E impl \in {[kind |-> "throw", error |-> "MCP request timeout: tools/call",
                    result |-> NoToolResult]} :
       toolsCall' = [toolsCall EXCEPT !.pc = "done", !.impl = impl.kind,
                                      !.ret = BaseCallToolResult(impl)]
  /\ UNCHANGED notToolsCall

RpcNext ==
  \/ \E id \in Ids, msg \in Texts : ToolsCallBegins(id, msg)
  \/ \E message \in Responses : ToolsCallResponse(message)
  \/ ToolsCallTimeout

\* One tools/call after the other, each answered by any response or timed out.
RpcSpec == Init /\ [][RpcNext]_vars


\* ------------------------------------------------- HttpMCPConnection
\* the methods of the connection that make a request
HttpMethods == {"connect", "listTools", "callTool"}
\* the path each of them posts to (45, 53; connect calls listTools)
HttpPath(method) == IF method = "callTool" THEN "/tools/call" ELSE "/tools/list"
\* the status codes a server answers with
Statuses == {200, 204, 404, 500}
\* the bodies of a response: a JSON object, the JSON text null, a text that
\* is no JSON, and a body whose stream fails while it is read
Bodies == {[body |-> "object", text |-> "{}"], [body |-> "null", text |-> "null"],
           [body |-> "text", text |-> "Not Found"], [body |-> "unreadable", text |-> ""]}
\* what `await fetch(...)` (84-88) ends with: a rejection when no response
\* came, else a response
HttpResponses ==
  {[kind |-> "network", status |-> 0, body |-> "", text |-> ""]}
    \cup {[kind |-> "response", status |-> st, body |-> b.body, text |-> b.text] :
            st \in Statuses, b \in Bodies}

\* response.ok (90)
Ok(response) == response.status >= 200 /\ response.status <= 299

Returned(value) == [kind |-> "returned", message |-> "", value |-> value]
Thrown(message) == [kind |-> "thrown", message |-> message, value |-> ""]

\* an httpRequest that parses the body whatever the status
HttpRequestIgnoresStatus(response) ==
  IF response.kind = "network" THEN Thrown("fetch failed")
  ELSE IF response.body = "unreadable" THEN Thrown("terminated")
  ELSE IF response.body = "text" THEN Thrown("Unexpected token in JSON")
  ELSE Returned(response.body)

\* httpRequest (75-102) from the settling of fetch on: a rejection of fetch,
\* of response.text() and of response.json() is an Error and is rethrown
\* (97-99); a response that is not ok throws `HTTP <status>: <body text>`.
HttpRequest(response) ==
  IF response.kind = "network" THEN Thrown("fetch failed")
  ELSE IF response.body = "unreadable" THEN Thrown("terminated")
  ELSE IF ~Ok(response)
  THEN Thrown("HTTP " \o ToString(response.status) \o ": " \o response.text)
  ELSE IF response.body = "text" THEN Thrown("Unexpected token in JSON")
  ELSE Returned(response.body)

\* response.tools (46) and response.content (60) of what httpRequest
\* returned: a TypeError when it is null
Member(requested, name) ==
  IF requested.kind = "thrown" THEN requested
  ELSE IF requested.value = "null"
  THEN Thrown("Cannot read properties of null (reading '" \o name \o "')")
  ELSE Returned(name)

\* listTools (44-47), callToolImpl (52-63) under BaseMCPConnection.callTool
\* (part_002 30-45), which turns what is thrown into an error ToolResult,
\* and connect (27-39), which throws it again under its own message
HttpCall(method, config, response) ==
  IF method = "listTools" THEN Member(HttpRequest(response), "tools")
  ELSE IF method = "callTool"
  THEN LET r == Member(HttpRequest(response), "content")
       IN  IF r.kind = "thrown"
           THEN [kind |-> "errorResult", value |-> "",
                 message |-> "Tool execution failed: " \o r.message]
           ELSE r
  ELSE LET r == Member(HttpRequest(response), "tools")
       IN  IF r.kind = "thrown"
           THEN Thrown("Failed to connect to HTTP MCP server " \o config.name \o ": "
                         \o r.message)
           ELSE Returned("")

notHttp == <<connVars, lifeVars,
    framerVars, clientVars, loopVars, storeVars, toolsCall,
             geminiQuery, modelError>>

\* A flow of control calls a method: the url is built from the config and
\* the request is sent (76-88); the call waits for fetch.
HttpFetch(c, method) ==
  /\ httpCalls[c].pc # "fetching"
  /\ httpCalls' = [httpCalls EXCEPT ![c] =
                     [NoHttpCall EXCEPT !.pc = "fetching", !.method = method,
                                        !.url = httpConfig.url \o HttpPath(method)]]
  /\ UNCHANGED <<httpConfig, notHttp>>

\* fetch settles for a waiting call, and the call ends (90-101 and the
\* method around it).
HttpSettles(c, response) ==
  /\ httpCalls[c].pc = "fetching"
  /\ httpCalls' = [httpCalls EXCEPT ![c].pc = "done", ![c].response = response,
                                    ![c].outcome =
                                      HttpCall(httpCalls[c].method, httpConfig, response)]
  /\ UNCHANGED <<httpConfig, notHttp>>

HttpNext ==
  \/ \E c \in HttpCallers, method \in HttpMethods : HttpFetch(c, method)
  \/ \E c \in HttpCallers, response \in HttpResponses : HttpSettles(c, response)

\* Two flows of control calling one HTTP connection, their calls interleaved.
HttpSpec == Init /\ [][HttpNext]_vars


\* ------------------------------------------------- GeminiAIService.query
\* The multimodal parts of a query. A part with fileData has the scheme of
\* its fileUri, what validateMultimodalFile does with it (returns, throws
\* SecurityError, throws another error) and, for an https uri it returned,
\* what validateSecureUrl does (returns, throws SecurityError).
Schemes == {"https", "file", "gs"}
PlainParts == {[type |-> t, uri |-> "", validated |-> "", secure |-> ""] :
                 t \in {"text", "inline"}}
FileParts ==
  {[type |-> "file", uri |-> u, validated |-> v, secure |-> "ok"] :
     u \in Schemes, v \in {"ok", "security", "invalid"}}
    \cup {[type |-> "file", uri |-> "https", validated |-> "ok", secure |-> "security"]}
Parts == PlainParts \cup FileParts
PartLists == UNION {[1..n -> Parts] : n \in 0..MaxParts}

\* the fileData block (110-145) of one part: the part pushed, or the error
\* thrown; SecurityError is rethrown as it is, another error as
\* `Invalid file data: ...`
FileData(part, allowFileUris) ==
  IF part.validated = "security"
  THEN [kind |-> "throw", error |-> "SecurityError", pushed |-> ""]
  ELSE IF part.validated = "invalid"
  THEN [kind |-> "throw", error |-> "Invalid file data", pushed |-> ""]
  ELSE IF part.uri = "https" /\ part.secure = "security"
  THEN [kind |-> "throw", error |-> "SecurityError", pushed |-> ""]
  ELSE IF part.uri = "file" /\ ~allowFileUris
  THEN [kind |-> "throw", error |-> "SecurityError", pushed |-> ""]
  ELSE [kind |-> "push", error |-> "", pushed |-> part.uri]

\* a buildContents that leaves out a part that fails its validation
RECURSIVE BuildContentsSkipsPart(_, _, _)
BuildContentsSkipsPart(parts, allowFileUris, built) ==
  IF parts = <<>> THEN [kind |-> "return", error |-> "", contents |-> built]
  ELSE IF Head(parts).type # "file"
  THEN BuildContentsSkipsPart(Tail(parts), allowFileUris, Append(built, Head(parts).type))
  ELSE LET r == FileData(Head(parts), allowFileUris)
       IN  BuildContentsSkipsPart(Tail(parts), allowFileUris,
             IF r.kind = "throw" THEN built ELSE Append(built, r.pushed))

\* buildContents (76-160): the prompt alone when there are no parts (78-80);
\* else the prompt and, in their order, the parts, each file part after its
\* validation; the first error thrown ends the loop (91-151).
RECURSIVE BuildContents(_, _, _)
BuildContents(parts, allowFileUris, built) ==
  IF parts = <<>> THEN [kind |-> "return", error |-> "", contents |-> built]
  ELSE IF Head(parts).type # "file"
  THEN BuildContents(Tail(parts), allowFileUris, Append(built, Head(parts).type))
  ELSE LET r == FileData(Head(parts), allowFileUris)
       IN  IF r.kind = "throw" THEN [kind |-> "throw", error |-> r.error, contents |-> <<>>]
           ELSE BuildContents(Tail(parts), allowFileUris, Append(built, r.pushed))

notQuery == <<connVars, lifeVars,
    framerVars, clientVars, loopVars, storeVars, toolsCall,
              httpVars, modelError>>

\* query(prompt, options, multimodalParts) is called on a service whose
\* config has the given allowFileUris (33-55).
QueryBegins(allowFileUris, parts) ==
  /\ geminiQuery.pc = "idle"
  /\ geminiQuery' = [NoQuery EXCEPT !.pc = "building", !.allowFileUris = allowFileUris,
                                    !.parts = parts]
  /\ UNCHANGED notQuery

\* buildContents settles (55): when it threw, the catch of query throws
\* `Gemini API error: ...` (64-70); else generateContent is called with the
\* contents (57-61).
BuildSettles ==
  /\ geminiQuery.pc = "building"
  /\ \E r \in {BuildContents(geminiQuery.parts, geminiQuery.allowFileUris, <<"prompt">>)} :
       geminiQuery' =
         IF r.kind = "throw"
         THEN [geminiQuery EXCEPT !.pc = "done", !.builds = @ + 1, !.outcome = "throws",
                                  !.error = "Gemini API error: " \o r.error]
         ELSE [geminiQuery EXCEPT !.pc = "generating", !.builds = @ + 1,
                                  !.backendCalls = @ + 1, !.sent = r.contents]
  /\ UNCHANGED notQuery

\* generateContent settles (57-70): its text is returned, or its rejection
\* thrown as `Gemini API error: ...`.
GenerateSettles(ok) ==
  /\ geminiQuery.pc = "generating"
  /\ geminiQuery' =
       IF ok THEN [geminiQuery EXCEPT !.pc = "done", !.outcome = "returns"]
       ELSE [geminiQuery EXCEPT !.pc = "done", !.outcome = "throws",
                                !.error = "Gemini API error: backend"]
  /\ UNCHANGED notQuery

QueryNext ==
  \/ \E allowFileUris \in BOOLEAN, parts \in PartLists : QueryBegins(allowFileUris, parts)
  \/ BuildSettles
  \/ \E ok \in BOOLEAN : GenerateSettles(ok)

\* One query, of any parts, on a service with either config.
QuerySpec == Init /\ [][QueryNext]_vars


\* ------------------------------------------------- ModelBehaviorError
\* the length up to which getTruncatedResponse returns the response whole
\* (`this.response.length <= 200`)
TruncateOver == 200
\* the characters it keeps of a longer one (`substring(0, 200)`)
TruncateTo == 200
\* '...'
Ellipsis == <<".", ".", ".">>

\* The responses an error is constructed with, as sequences of characters:
\* of every length up to MaxResponse, all of one letter, all dots, or the
\* letters A and B in turn.
ResponseTexts ==
  UNION {{[k \in 1..n |-> "A"], [k \in 1..n |-> "."],
          [k \in 1..n |-> IF k % 2 = 1 THEN "A" ELSE "B"]} : n \in 0..MaxResponse}

\* a getTruncatedResponse that truncates a response of the limit's length too
GetTruncatedResponseFromLimit(response) ==
  IF Len(response) < TruncateOver THEN response
  ELSE SubSeq(response, 1, TruncateTo) \o Ellipsis

\* getTruncatedResponse (19-24)
GetTruncatedResponse(response) ==
  IF Len(response) <= TruncateOver THEN response
  ELSE SubSeq(response, 1, TruncateTo) \o Ellipsis

notModelError == <<connVars, lifeVars,
    framerVars, clientVars, loopVars, storeVars, toolsCall,
                   httpVars, geminiQuery>>

\* new ModelBehaviorError(response, message) (11-14)
NewModelBehaviorError(response) ==
  /\ modelError.state = "none"
  /\ modelError' = [state |-> "constructed", response |-> response, truncated |-> <<>>]
  /\ UNCHANGED notModelError

\* error.getTruncatedResponse() is called, and its value kept by the caller
GetTruncatedResponseCall ==
  /\ modelError.state # "none"
  /\ modelError' = [modelError EXCEPT !.state = "truncated",
                                      !.truncated = GetTruncatedResponse(modelError.response)]
  /\ UNCHANGED notModelError

TruncNext ==
  \/ \E response \in ResponseTexts : NewModelBehaviorError(response)
  \/ GetTruncatedResponseCall

\* One ModelBehaviorError, asked for its truncated response any number of
\* times.
TruncSpec == Init /\ [][TruncNext]_vars


\* ------------------------------------------------- sendRequest, by statement
\* sendRequest (246-265) is between its statements: the promise executor
\* (251-264) runs to its end before any callback of the connection can run
InSendRequest == lastEvent.op \in {"set", "write"}

\* a sendRequest that sets no entry
SendRequestSetsNothing(method) ==
  /\ ~InSendRequest
  /\ process # "null"
  /\ messageId < MaxId
  /\ messageId' = NextMessageId
  /\ lastEvent' = [NoEvent EXCEPT !.op = "set", !.method = method, !.id = NextMessageId]
  /\ UNCHANGED <<process, child, killed, stdoutOpen, buffer, pendingRequests, outcome,
                 settleCount, timer, written>>
  /\ UNCHANGED <<framerVars, clientVars, loopVars, serviceVars>>

\* listTools / callToolImpl take the id (203, 217) and sendRequest, on a
\* connection whose this.process is set (247-249), sets the entry of the
\* request (252).
SendRequestSets(method) ==
  /\ ~InSendRequest
  /\ process # "null"
  /\ messageId < MaxId
  /\ messageId' = NextMessageId
  /\ pendingRequests' = pendingRequests \cup {NextMessageId}
  /\ lastEvent' = [NoEvent EXCEPT !.op = "set", !.method = method, !.id = NextMessageId]
  /\ UNCHANGED <<process, child, killed, stdoutOpen, buffer, outcome, settleCount, timer,
                 written>>
  /\ UNCHANGED <<framerVars, clientVars, loopVars, serviceVars>>

\* The line of the request is written to the child's stdin (254-255).
SendRequestWrites ==
  /\ lastEvent.op = "set"
  /\ written' = Append(written, lastEvent.id)
  /\ lastEvent' = [lastEvent EXCEPT !.op = "write"]
  /\ UNCHANGED <<process, child, killed, stdoutOpen, buffer, messageId, pendingRequests,
                 outcome, settleCount, timer>>
  /\ UNCHANGED <<framerVars, clientVars, loopVars, serviceVars>>

\* The timer of the request is set (258-263), and the promise returned.
SendRequestArms ==
  /\ lastEvent.op = "write"
  /\ timer' = [timer EXCEPT ![lastEvent.id] = "armed"]
  /\ lastEvent' = [lastEvent EXCEPT !.op = "request", !.ret = "pending"]
  /\ UNCHANGED <<process, child, killed, stdoutOpen, buffer, messageId, pendingRequests,
                 outcome, settleCount, written>>
  /\ UNCHANGED <<framerVars, clientVars, loopVars, serviceVars>>

SendNext ==
  \/ Connect
  \/ \E method \in Methods : SendRequestSets(method)
  \/ SendRequestWrites
  \/ SendRequestArms
  \/ \E method \in Methods : ~InSendRequest /\ process = "null" /\ Request(method)
  \/ \E chunk \in LineChunks : ~InSendRequest /\ Data(chunk)
  \/ \E i \in Ids : ~InSendRequest /\ Timeout(i)
  \/ ~InSendRequest /\ ChildDies
  \/ ~InSendRequest /\ ExitEvent
  \/ ~InSendRequest /\ StdoutEnd
  \/ ~InSendRequest /\ Close

\* The connection in every interleaving of its callbacks, with sendRequest
\* taken statement by statement.
SendSpec == Init /\ [][SendNext]_vars


\* ------------------------------------------------- the client's subprocesses
notSpawns == <<connVars, oldChild, framerVars, clientVars, loopVars, storeVars, toolsCall,
               httpVars, geminiQuery, modelError>>

\* initializeStdioServer(config) (72-88) with the connect() it awaits
\* (part_003 146-195), for every outcome of spawn(): a config without command
\* or args throws before a connection is made; a connect() that throws
\* leaves no child and no entry; else the connection, with the child it
\* spawned, is set under config.name, in the place of the one that was there.
InitializeStdioServerSpawning(name, valid, spawn) ==
  /\ Len(spawns.children) < MaxSpawns
  /\ spawns' =
       IF ~valid \/ spawn \in {"noStreams", "throws"}
       THEN [spawns EXCEPT !.op = "initializeThrows"]
       ELSE [children |-> Append(spawns.children,
                                 [server |-> name,
                                  state |-> IF spawn = "started" THEN "running"
                                            ELSE "failed"]),
             stdioServers |-> [spawns.stdioServers EXCEPT
                                 ![name] = Len(spawns.children) + 1],
             op |-> "initialize"]
  /\ UNCHANGED notSpawns

\* A child terminates, by itself or by the signal it was sent, and its 'exit'
\* handler nulls this.process of its connection (part_003 189-192); the
\* connection stays where it is.
SpawnedChildExits(k) ==
  /\ k \in 1..Len(spawns.children)
  /\ spawns.children[k].state \in {"running", "signalled"}
  /\ spawns' = [spawns EXCEPT !.children[k].state = "exited", !.op = "exit"]
  /\ UNCHANGED notSpawns

\* discoverTools() (114-124) and callTool() (166-178): requests on the
\* connections in the maps; no child is spawned or signalled, no entry set
\* or deleted.
ClientCalls(op) ==
  /\ spawns' = [spawns EXCEPT !.op = op]
  /\ UNCHANGED notSpawns

\* shutdown() (183-199): close() (part_003 235-241) on every connection in
\* stdioServers signals its child when this.process is not null; then the
\* map is cleared.
ShutdownSignalling ==
  /\ spawns' =
       [children |->
          [k \in 1..Len(spawns.children) |->
             IF /\ \E n \in ServerNames : spawns.stdioServers[n] = k
                /\ spawns.children[k].state = "running"
             THEN [spawns.children[k] EXCEPT !.state = "signalled"]
             ELSE spawns.children[k]],
        stdioServers |-> [n \in ServerNames |-> 0],
        op |-> "shutdown"]
  /\ UNCHANGED notSpawns

LeakNext ==
  \/ \E name \in ServerNames, valid \in BOOLEAN, spawn \in SpawnOutcomes :
       InitializeStdioServerSpawning(name, valid, spawn)
  \/ \E k \in 1..MaxSpawns : SpawnedChildExits(k)
  \/ \E op \in {"discoverTools", "callTool"} : ClientCalls(op)
  \/ ShutdownSignalling

\* One client: any sequence of its operations, on any configs, with the
\* children terminating when they will.
LeakSpec == Init /\ [][LeakNext]_vars


\* ------------------------------------------------------ claims C1 .. C9
\* C1: each request's promise is settled at most once, and exactly once by the
\* time its timer has fired, either by the response that carries its id or by
\* its own timeout; an entry is in the table exactly while the request is
\* written, its timer armed and its promise unsettled.
C1_SettledExactlyOnce ==
  \A i \in Ids :
    /\ settleCount[i] <= 1
    /\ (timer[i] = "fired" => settleCount[i] = 1)
    /\ (settleCount[i] = 1 =>
          outcome[i].kind \in {"result", "error", "timeout"} /\ outcome[i].from = i)
    /\ (settleCount[i] = 0 => outcome[i] = NoOutcome)
    /\ (i \in pendingRequests <=> (timer[i] = "armed" /\ settleCount[i] = 0))

\* a request answered by its response, whose timer then fired, after the child exited
C1_Witness ==
  \E i \in Ids : /\ timer[i] = "fired" /\ outcome[i].kind = "result"
                 /\ settleCount[i] = 1 /\ child = "exited"

\* C2: a request completed by a response is completed by the response that
\* carries its own id, whatever the arrival order, and every request in the
\* table is eventually settled, by a response or by its timeout.
C2_OwnResponseEventually ==
  /\ [](\A i \in Ids : outcome[i].kind \in {"result", "error"} => outcome[i].from = i)
  /\ [][\A i \in Ids : (outcome'[i] # outcome[i] /\ outcome'[i].kind # "timeout")
                          => (lastEvent'.op = "data" /\ i \in lastEvent'.matched)]_vars
  /\ \A i \in Ids : (i \in pendingRequests) ~> (settleCount[i] = 1)

\* requests 1 and 2 in flight together, 2 answered first, then 1
C2_Witness ==
  /\ lastEvent.op = "data" /\ lastEvent.matched = {1}
  /\ outcome[1].kind = "error" /\ outcome[2].kind = "result"
  /\ timer[1] = "armed" /\ timer[2] = "armed"

\* C3: a 'data' event removes from the table and settles only the requests
\* whose id a parsed line carried while they were pending; a line whose id has
\* no entry (duplicate, late, never issued) changes neither the table nor any
\* promise.
C3_UnmatchedDropped ==
  [][lastEvent'.op = "data" =>
       /\ pendingRequests' = pendingRequests \ lastEvent'.matched
       /\ \A i \in Ids \ lastEvent'.matched :
            outcome'[i] = outcome[i] /\ settleCount'[i] = settleCount[i]]_vars

\* the response of a request that has timed out arrives, and is dropped
C3_Witness ==
  /\ lastEvent.op = "data"
  /\ \E i \in lastEvent.dropped : outcome[i] = TimeoutError(i) /\ settleCount[i] = 1

\* C4: when the timer of request i fires, and i is still pending, i alone is
\* removed and rejected with its timeout; when i is no longer pending, nothing
\* changes. Every other request keeps its entry and its promise.
C4_TimeoutOnlyOwn ==
  [][\A i \in Ids : (timer[i] = "armed" /\ timer'[i] = "fired") =>
       IF i \in pendingRequests
       THEN /\ pendingRequests' = pendingRequests \ {i}
            /\ outcome'[i] = TimeoutError(i) /\ settleCount'[i] = 1
            /\ \A j \in Ids \ {i} :
                 outcome'[j] = outcome[j] /\ settleCount'[j] = settleCount[j]
       ELSE UNCHANGED <<pendingRequests, outcome, settleCount>>]_vars

\* one request has just timed out while another stays pending
C4_Witness ==
  /\ lastEvent.op = "timeout" /\ outcome[lastEvent.id].kind = "timeout"
  /\ pendingRequests # {}

\* C5: after 'exit' or close() the connection is not connected; a request
\* still in the table then is eventually removed and settled, and once stdout
\* has ended only its own timeout removes it.
C5_ExitLeavesNoPending ==
  /\ [](lastEvent.op \in {"exit", "close"} => ~IsConnected)
  /\ [][\A i \in Ids : (~stdoutOpen /\ i \in pendingRequests /\ i \notin pendingRequests')
                          => outcome'[i] = TimeoutError(i)]_vars
  /\ \A i \in Ids : (i \in pendingRequests /\ process = "null")
                       ~> (i \notin pendingRequests /\ settleCount[i] = 1)

\* the child has exited, its stdout has ended, and a request that was pending
\* has just been rejected by its timeout
C5_Witness ==
  /\ child = "exited" /\ ~stdoutOpen /\ process = "null"
  /\ lastEvent.op = "timeout" /\ outcome[lastEvent.id] = TimeoutError(lastEvent.id)

\* C6: a connection that never connected, was closed, or whose child has
\* exited reports isConnected() = false, and a listTools or callTool on a
\* connection that is not connected fails at once (listTools throws, callTool
\* returns an error result): no entry is set, nothing written, no timer armed.
C6_NotConnectedFailsAtOnce ==
  /\ []((child \in {"none", "exited"} \/ killed \/ lastEvent.op = "close") => ~IsConnected)
  /\ [][(~IsConnected /\ messageId' # messageId) =>
          /\ lastEvent'.op = "request" /\ lastEvent'.ret \in {"throw", "errorResult"}
          /\ UNCHANGED <<pendingRequests, written, timer>>]_vars

\* callTool after the child has exited returned an error result
C6_Witness ==
  /\ child = "exited" /\ lastEvent.op = "request" /\ lastEvent.method = "tools/call"
  /\ lastEvent.ret = "errorResult" /\ lastEvent.id \notin pendingRequests

\* C9: the ids written to the child's stdin are greater than zero and strictly
\* increasing, hence pairwise distinct, and the table holds only written ids.
C9_IdsIncrease ==
  /\ \A k \in 1..Len(written) : written[k] > 0
  /\ \A k \in 1..(Len(written) - 1) : written[k] < written[k + 1]
  /\ pendingRequests \subseteq {written[k] : k \in 1..Len(written)}

\* two requests written, both in the table
C9_Witness == Len(written) >= 2 /\ pendingRequests = {written[1], written[2]}


\* ------------------------------------------------------ claims C7, C8
\* What the framing is meant to compute, stated on the whole text and without
\* split(): the positions of the newlines, the line that ends at each, and the
\* fragment after the last one.
LineEnds(text) == {b \in 1..Len(text) : text[b] = NL}
MaxOf(S) == CHOOSE m \in S : \A x \in S : x <= m
MinOf(S) == CHOOSE m \in S : \A x \in S : m <= x
LineEndingAt(text, b) ==
  SubSeq(text, 1 + MaxOf({0} \cup {j \in LineEnds(text) : j < b}), b - 1)
FragmentOf(text) == SubSeq(text, 1 + MaxOf({0} \cup LineEnds(text)), Len(text))
CompleteLines(text) ==
  LET ends == LineEnds(text)
  IN  [k \in 1..Cardinality(ends) |->
         LineEndingAt(text, CHOOSE b \in ends : Cardinality({j \in ends : j <= b}) = k)]

\* C7: however the byte stream is cut into chunks, the lines handed to the
\* parser are the complete non-blank lines of the stream's text, in order, and
\* the buffer is the text after the last newline.
C7_SameLinesAnyChunking ==
  LET text == Decode(fStream)
  IN  /\ fLines = SelectSeq(CompleteLines(text), LAMBDA l : ~IsBlank(l))
      /\ buffer = FragmentOf(text)

\* What the 'data' handler must make of chunk c, by C8: the buffer becomes the
\* fragment after the last newline; a pending request is removed and settled
\* by the first complete line that parses as a response with its id, wherever
\* lines that do not parse stand among the lines; nothing else changes.
C8_Post(c, r) ==
  LET text == buffer \o c
      after == r.done.st
  IN  /\ r.buffer = FragmentOf(text)
      /\ \A i \in Ids :
           LET ends == {b \in LineEnds(text) :
                          LET m == Parse(LineEndingAt(text, b)) IN m.ok /\ m.id = i}
           IN  IF i \in pendingRequests /\ ends # {}
               THEN /\ i \notin after.pending
                    /\ after.settle[i] = 1
                    /\ after.outcome[i] =
                         ResponseOutcome(Parse(LineEndingAt(text, MinOf(ends))))
               ELSE /\ (i \in after.pending <=> i \in pendingRequests)
                    /\ after.outcome[i] = outcome[i]
                    /\ after.settle[i] = settleCount[i]

\* C8: in every state the connection reaches, whatever chunk arrives next, a
\* line that does not parse changes neither the table nor the buffer, and
\* every valid response line of the chunk still reaches its pending request.
C8_BadLineSkipped ==
  \A c \in ByteChunks : \A r \in {DataResult(c)} :
    (stdoutOpen /\ Len(r.buffer) <= MaxBuf) => C8_Post(c, r)

\* a response was delivered to its pending request after a line of the same
\* chunk had failed to parse
C8_Witness ==
  /\ lastEvent.op = "data" /\ lastEvent.bad
  /\ \E i \in lastEvent.afterBad : outcome[i].from = i /\ i \notin pendingRequests


\* ------------------------------------------------------ claim C10
\* C10: EnhancedMCPClient.callTool never throws: however the call fails, it
\* ends by returning a ToolResult (success or error).
C10_CallToolNeverThrows ==
  callResult.op = "callTool" => callResult.ret \in {"success", "error"}

\* What holds of the code: callTool returns a ToolResult whenever a
\* connection is registered under the name, and throws only when none is.
C10_ThrowsOnlyNotFound ==
  callResult.op = "callTool" =>
    (callResult.ret = "throw" <=>
       (stdioServers[callResult.server] = "absent"
          /\ httpServers[callResult.server] = "absent"))


\* ------------------------------------------------------ claims C11 .. C17
\* C11: the execution of a discovered tool hands the call, with the tool's
\* remote name, to the connection that listed the tool, and to no other.
C11_ExecuteRoutesToOrigin ==
  (callResult.op = "execute" /\ callResult.ret # "throw") =>
    /\ callResult.routed = callResult.from
    /\ \E k \in 1..Len(discoveredTools) :
         /\ discoveredTools[k].serverName = callResult.server
         /\ discoveredTools[k].toolName = callResult.tool

\* What holds of the code: the call goes to whatever connection stands under
\* the wrapper's server name when the tool is executed, the stdio map first.
C11_ExecuteRoutesByName ==
  (callResult.op = "execute" /\ callResult.ret # "throw") =>
    callResult.routed = Route(callResult.server)

\* C12: a pass of initialize whose server fails (unknown transport, missing
\* fields, connect() throws) changes neither map and is logged; a pass whose
\* server connects registers it in the map of its transport; after either,
\* initialize goes on with its loop; it leaves the loop only into its one
\* discovery, and leaves the discovery only by returning normally.
C12_FailedServerSkipped ==
  /\ [][callResult'.op \in {"initStdio", "initHttp", "initUnknown"} =>
          /\ task.pc = "connect" /\ task' = task
          /\ IF callResult'.ret = "logged"
             THEN UNCHANGED <<stdioServers, httpServers, stdioKeys, httpKeys>>
             ELSE /\ callResult'.ret = "registered"
                  /\ callResult'.op = "initStdio" =>
                       (stdioServers'[callResult'.server] = "connected"
                          /\ UNCHANGED <<httpServers, httpKeys>>)
                  /\ callResult'.op = "initHttp" =>
                       (httpServers'[callResult'.server] = "present"
                          /\ UNCHANGED <<stdioServers, stdioKeys>>)]_vars
  /\ [][(task.pc = "connect" /\ task'.pc # "connect") =>
          (task'.pc = "stdio" /\ task'.caller = "initialize" /\ task'.idx = 1)]_vars
  /\ [][(task.caller = "initialize" /\ InDiscovery /\ ~InDiscovery') =>
          (task' = Idle /\ callResult'.op = "initialize" /\ callResult'.ret = "ok")]_vars

\* the pass of a server that failed, in an initialize that has registered
\* another server, and goes on
C12_Witness ==
  /\ callResult.op = "initStdio" /\ callResult.ret = "logged" /\ task.pc = "connect"
  /\ stdioServers[callResult.server] = "absent"
  /\ \E n \in ServerNames : httpServers[n] = "present"

\* C13: when no discovery pass is in progress, the public names of the tools
\* of the tool set are pairwise distinct.
C13_PublicNamesDistinct ==
  ~InDiscovery =>
    \A j, k \in 1..Len(discoveredTools) :
      j # k => discoveredTools[j].name # discoveredTools[k].name

\* C14 as claimed: the public name of a tool is <serverName>_<toolName>.
C14_NameIsServerUnderscoreTool ==
  \A k \in 1..Len(discoveredTools) :
    discoveredTools[k].name =
      discoveredTools[k].serverName \o "_" \o discoveredTools[k].toolName

\* a pass that asked a stdio server, then an http server, and got `search`
\* from both
ScenarioB(listed) ==
  /\ Len(listed) = 2
  /\ listed[1].from = "stdio" /\ listed[2].from = "http"
  /\ \A k \in 1..2 : listed[k].ok /\ listed[k].tools = <<"search">>

\* C14, amended: the public name of every tool is mcp_<serverName>_<toolName>,
\* and a pass over a stdio server and an http server that both list `search`
\* leaves exactly two tools, mcp_<serverA>_search and mcp_<serverB>_search.
C14_NameIsMcpServerTool ==
  /\ \A k \in 1..Len(discoveredTools) :
       discoveredTools[k].name =
         "mcp_" \o discoveredTools[k].serverName \o "_" \o discoveredTools[k].toolName
  /\ (callResult.op \in {"initialize", "discoverTools"} /\ callResult.ret = "ok"
        /\ ScenarioB(callResult.pass.listed)) =>
       [k \in 1..Len(discoveredTools) |-> discoveredTools[k].name] =
         << "mcp_" \o callResult.pass.listed[1].serverName \o "_search",
            "mcp_" \o callResult.pass.listed[2].serverName \o "_search" >>

\* scenario B with the servers A (stdio) and A_b (http)
C14_Witness ==
  /\ callResult.op = "initialize" /\ callResult.ret = "ok"
  /\ ScenarioB(callResult.pass.listed)
  /\ callResult.pass.listed[1].serverName = "A"
  /\ callResult.pass.listed[2].serverName = "A_b"
  /\ Len(discoveredTools) = 2
  /\ discoveredTools[1].name = "mcp_A_search" /\ discoveredTools[2].name = "mcp_A_b_search"

\* the tools the answers of a pass amount to: those of every listTools() that
\* succeeded, in the order asked
RECURSIVE ToolsListed(_)
ToolsListed(listed) ==
  IF listed = <<>> THEN <<>>
  ELSE LET a == Head(listed)
       IN  (IF a.ok THEN [k \in 1..Len(a.tools) |-> <<a.from, a.serverName, a.tools[k]>>]
            ELSE <<>>) \o ToolsListed(Tail(listed))

\* C15: a listTools() that fails leaves the tool set as it is and the pass
\* running; the pass asks every registered connection once and returns, and
\* the tool set is then made of the tools of every listTools() that succeeded.
C15_FailedListToolsSkipped ==
  /\ [][(callResult'.op = "listTools"
           /\ ~task'.pass.listed[Len(task'.pass.listed)].ok) =>
          (discoveredTools' = discoveredTools /\ InDiscovery'
             /\ task'.pc = task.pc /\ task'.idx = task.idx + 1)]_vars
  /\ []((callResult.op \in {"initialize", "discoverTools"} /\ callResult.ret = "ok") =>
          LET listed == callResult.pass.listed
          IN  /\ [k \in 1..Len(listed) |-> <<listed[k].from, listed[k].serverName>>] =
                   [k \in 1..Len(stdioKeys) |-> <<"stdio", stdioKeys[k]>>]
                     \o [k \in 1..Len(httpKeys) |-> <<"http", httpKeys[k]>>]
              /\ [k \in 1..Len(discoveredTools) |->
                    <<discoveredTools[k].from, discoveredTools[k].serverName,
                      discoveredTools[k].toolName>>] = ToolsListed(listed))

\* a pass has returned in which one connection failed to list its tools and
\* a connection asked after it listed one
C15_Witness ==
  /\ callResult.op = "discoverTools" /\ callResult.ret = "ok"
  /\ \E j, k \in 1..Len(callResult.pass.listed) :
       /\ j < k /\ ~callResult.pass.listed[j].ok
       /\ callResult.pass.listed[k].ok /\ callResult.pass.listed[k].tools # <<>>
  /\ Len(discoveredTools) = 1

\* C16: every getTools() made while a discovery pass was suspended returned
\* the complete tool set from before the pass or the complete one the pass
\* has built.
C16_AtomicReplace ==
  (callResult.op \in {"initialize", "discoverTools"} /\ callResult.ret = "ok") =>
    callResult.pass.seen \subseteq {callResult.pass.prev, discoveredTools}

\* What holds of the code: getTools() during a pass returns what the pass has
\* pushed so far, a prefix of the set the pass ends with.
C16_SeenArePrefixes ==
  (callResult.op \in {"initialize", "discoverTools"} /\ callResult.ret = "ok") =>
    \A t \in callResult.pass.seen :
      Len(t) <= Len(discoveredTools) /\ t = SubSeq(discoveredTools, 1, Len(t))

\* C17: shutdown() returns normally, having closed every connection that was
\* registered; after it both maps and the tool set are empty and no server
\* name routes to a connection; a shutdown() right after a shutdown() finds
\* nothing to close and changes nothing.
C17_ShutdownEmptiesClient ==
  /\ [](callResult.op = "shutdown" =>
          /\ callResult.ret = "ok"
          /\ stdioKeys = <<>> /\ httpKeys = <<>> /\ discoveredTools = <<>>
          /\ \A n \in ServerNames :
               stdioServers[n] = "absent" /\ httpServers[n] = "absent" /\ Route(n) = "none")
  /\ [][callResult'.op = "shutdown" =>
          callResult'.closed =
            {<<"stdio", n>> : n \in {m \in ServerNames : stdioServers[m] # "absent"}}
              \cup {<<"http", n>> : n \in {m \in ServerNames : httpServers[m] # "absent"}}]_vars
  /\ [][(callResult.op = "shutdown" /\ callResult'.op = "shutdown") =>
          (callResult'.closed = {} /\ callResult'.ret = "ok"
             /\ UNCHANGED <<stdioServers, httpServers, stdioKeys, httpKeys,
                            discoveredTools>>)]_vars

\* a shutdown has closed a stdio and an http connection
C17_Witness ==
  /\ callResult.op = "shutdown"
  /\ \E n, m \in ServerNames : {<<"stdio", n>>, <<"http", m>>} \subseteq callResult.closed


\* ------------------------------------------------------ claims C18 .. C20
\* C18: a run with maxTurns N calls the model service at most N times; it
\* ends as MaxTurnsExceeded exactly when the model has requested tools in N
\* turns, with turnsUsed = N after N model calls, and a run that has ended
\* calls the model no more.
C18_AtMostMaxTurns ==
  /\ [](modelCalls <= maxTurns /\ turnsUsed <= modelCalls)
  /\ [](runState = "MaxTurnsExceeded" <=> (runState # "Idle" /\ turnsUsed = maxTurns))
  /\ [](runState = "MaxTurnsExceeded" => (modelCalls = maxTurns /\ requests = 0))
  /\ [][(runState \in {"Completed", "MaxTurnsExceeded", "Failed"}) =>
          (modelCalls' = modelCalls /\ runState' = runState)]_vars

\* a run with maxTurns greater than 1 has ended as MaxTurnsExceeded
C18_Witness ==
  runState = "MaxTurnsExceeded" /\ maxTurns > 1 /\ turnsUsed = maxTurns

\* C19: a tool call that fails (its arguments are refused, no connection is
\* found, the connection's call fails) gives its request a ToolResult with
\* status error, and one that succeeds a ToolResult with status success; it
\* leaves the results of the other requests and the state of the run alone;
\* the turn ends with one ToolResult per request and the run goes on with the
\* next turn, or ends as MaxTurnsExceeded.
C19_FailedCallIsErrorResult ==
  /\ [][lastCall' # lastCall =>
          LET j == lastCall'.request
              failed == ~lastCall'.argsValid \/ lastCall'.routed = "none"
                          \/ lastCall'.impl # "ok"
          IN  /\ results[j] = "pending"
              /\ results'[j] = IF failed THEN "error" ELSE "success"
              /\ \A k \in (1..requests) \ {j} : results'[k] = results[k]
              /\ runState' = "Running" /\ requests' = requests]_vars
  /\ [][turnsUsed' # turnsUsed =>
          /\ Len(results) = requests
          /\ \A j \in 1..requests : results[j] \in {"success", "error"}
          /\ Len(messages') = Len(messages) + 1 + requests
          /\ runState' \in {"Running", "MaxTurnsExceeded"}]_vars

\* a turn in which one call failed and another succeeded has ended, and the
\* model was called again
C19_Witness ==
  /\ modelCalls > turnsUsed /\ turnsUsed >= 1
  /\ \E k \in 1..Len(messages) : messages[k].role = "tool" /\ messages[k].status = "error"
  /\ \E k \in 1..Len(messages) : messages[k].role = "tool" /\ messages[k].status = "success"

\* C20: the ToolResults of a turn are appended to the messages in the order
\* of the requests, each with the status of its own call, whatever the order
\* in which the calls completed.
C20_ResultsInRequestOrder ==
  [][turnsUsed' # turnsUsed =>
       /\ messages'[Len(messages) + 1] = ModelMessage(requests)
       /\ \A j \in 1..requests :
            /\ messages'[Len(messages) + 1 + j].role = "tool"
            /\ messages'[Len(messages) + 1 + j].request = j
            /\ messages'[Len(messages) + 1 + j].status = results[j]
       /\ SubSeq(messages', 1, Len(messages)) = messages]_vars

\* a turn has ended whose second call completed first, with another result
\* than the first
C20_Witness ==
  /\ requests = 0 /\ turnsUsed >= 1 /\ Len(arrived) >= 2
  /\ arrived[1] = 2 /\ arrived[2] = 1
  /\ results[1] # results[2]
  /\ messages[Len(messages)] = ToolMessage(Len(arrived), results[Len(arrived)])


\* ------------------------------------------------------ claims C21 .. C23
\* C21: handle never throws: whatever its run() gives, it returns a text
\* response; a run that ended Failed on an error of the model service gives
\* the text of that error, as the final output of the run or, when the error
\* came as a rejection, after `Error in agentic loop: `; and handle returns
\* as soon as its run has settled.
C21_HandleAlwaysReturns ==
  /\ [](storeOp.op = "handle" =>
          /\ ~storeOp.thrown
          /\ storeOp.response.type = "text"
          /\ storeOp.run.state = "Failed" =>
               storeOp.response.text =
                 IF storeOp.run.thrown THEN "Error in agentic loop: " \o storeOp.run.error
                 ELSE storeOp.run.finalOutput
          /\ storeOp.run.thrown => storeOp.run.state = "Failed")
  /\ [][(handling.pc = "run" /\ handling'.pc # "run") =>
          (storeOp'.op = "handle" /\ handling' = NotHandling)]_vars

\* a run has thrown and handle has returned the text of its error
C21_Witness ==
  /\ storeOp.op = "handle" /\ storeOp.run.thrown /\ ~storeOp.thrown
  /\ storeOp.response = CreateTextResponse("Error in agentic loop: model service unavailable",
                                           NoSession, FALSE)

\* C22: no step removes or rewrites a message of a history: each history only
\* grows at its end; addMessage appends its message to the history of its
\* session and leaves the others alone; getHistory changes nothing and
\* returns the history of the session, the empty sequence for an unknown
\* identifier; createSession returns an identifier that no session had, with
\* an empty history.
C22_StoreAppendOnly ==
  /\ [][\A id \in SessionIds :
          /\ Len(histories[id]) <= Len(histories'[id])
          /\ SubSeq(histories'[id], 1, Len(histories[id])) = histories[id]]_vars
  /\ [][storeOp'.op = "addMessage" =>
          /\ histories'[storeOp'.id] = histories[storeOp'.id] \o storeOp'.added
          /\ \A id \in SessionIds \ {storeOp'.id} : histories'[id] = histories[id]]_vars
  /\ [][storeOp'.op = "getHistory" =>
          /\ UNCHANGED <<sessions, histories>>
          /\ storeOp'.ret = IF storeOp'.id \in sessions THEN histories[storeOp'.id]
                            ELSE <<>>]_vars
  /\ [][storeOp'.op = "createSession" =>
          /\ storeOp'.id \notin sessions /\ sessions' = sessions \cup {storeOp'.id}
          /\ histories'[storeOp'.id] = <<>>
          /\ \A id \in SessionIds \ {storeOp'.id} : histories'[id] = histories[id]]_vars
  /\ [](\A id \in SessionIds \ sessions : histories[id] = <<>>)

\* a message was just added to a session that had two messages, while another
\* session holds its own message
C22_Witness ==
  /\ storeOp.op = "addMessage" /\ Len(histories[storeOp.id]) = 3
  /\ histories[storeOp.id][1] # histories[storeOp.id][2]
  /\ \E id \in sessions \ {storeOp.id} : Len(histories[id]) = 1

\* the steps of handle
ByHandle(op) == op.by = "handle"

C24_ConnectFailsUnlessStarted ==
  lastEvent.op = "connect" =>
    /\ lastEvent.ret \in {"ok", "throw"}
    /\ lastEvent.ret = "ok" <=> child = "running"

\* What holds of the code: connect() throws exactly when spawn() threw or
\* returned a ChildProcess without stdout or stdin.
C24_ThrowsOnlyWithoutStreams ==
  lastEvent.op = "connect" =>
    (lastEvent.ret = "throw" <=> child \in {"none", "unspawned"})

\* C25: a subprocess connection is connected only once a request (its
\* initial tools/list) has been answered with a result, and it is not
\* connected after close() and after 'exit'.
C25_ConnectedAfterListTools ==
  /\ IsConnected => \E i \in Ids : outcome[i].kind = "result"
  /\ lastEvent.op \in {"close", "exit"} => ~IsConnected

\* What holds of the code: the connection is connected from the return of
\* spawn() on, whatever was or was not exchanged with the child.
C25_ConnectedOnceSpawned ==
  /\ (lastEvent.op = "connect" /\ lastEvent.ret = "ok") => (IsConnected /\ written = <<>>)
  /\ lastEvent.op \in {"close", "exit"} => ~IsConnected

\* C26: close() leaves this.process null, so isConnected() is false after it;
\* it signals the child of the connection when it runs; on a connection
\* without a process (never connected, closed before, child exited) it changes
\* nothing; it never throws.
C26_CloseIdempotent ==
  [][lastEvent'.op = "close" =>
       /\ process' = "null" /\ ~IsConnected'
       /\ lastEvent'.ret = ""
       /\ (process # "null" /\ child = "running") => killed'
       /\ process = "null" =>
            UNCHANGED <<process, child, killed, stdoutOpen, buffer, messageId,
                        pendingRequests, outcome, settleCount, timer, written>>]_vars

\* close() was called on a connection that a close() had closed, with the
\* child signalled and still running
C26_Witness ==
  /\ lastEvent.op = "close" /\ process = "null" /\ killed /\ child = "running"
  /\ pendingRequests # {}


\* ------------------------------------------------------ claim C27
\* the call has ended by the response that carried its id
Answered == toolsCall.pc = "done" /\ toolsCall.message.id = toolsCall.id

\* C27 as claimed: a call answered by a response without an error member
\* returns a success ToolResult, its content the JSON text of result.content
\* (with the text of the call when the server echoes it); a call answered by
\* a response with an error member returns an error built from that member.
C27_ResultOrErrorField ==
  Answered =>
    IF toolsCall.message.error = "absent"
    THEN /\ toolsCall.ret.status = "success"
         /\ toolsCall.message.result = "content" =>
              toolsCall.ret.content = Stringify(toolsCall.message.text)
    ELSE /\ toolsCall.ret.status = "error"
         /\ toolsCall.ret.content =
              "Tool execution failed: "
                \o (IF toolsCall.message.error = "message" THEN toolsCall.message.text
                    ELSE "MCP request failed")

\* C27, amended: a call answered by a response whose error member is absent
\* or null and whose result is there and not null returns a success
\* ToolResult, its content the JSON text of result.content; a call answered
\* by a response with an error member that is not null returns an error
\* ToolResult with the message of that member, or `MCP request failed`.
C27_ResultOrTruthyError ==
  Answered =>
    /\ (toolsCall.message.error \in {"absent", "null"}
          /\ toolsCall.message.result \notin {"absent", "null"}) =>
         /\ toolsCall.ret.status = "success" /\ toolsCall.impl = "return"
         /\ toolsCall.ret.hasContent <=> toolsCall.message.result = "content"
         /\ toolsCall.message.result = "content" =>
              toolsCall.ret.content = Stringify(toolsCall.message.text)
    /\ toolsCall.message.error \notin {"absent", "null"} =>
         /\ toolsCall.ret.status = "error" /\ toolsCall.impl = "throw"
         /\ toolsCall.ret.content =
              "Tool execution failed: "
                \o (IF toolsCall.message.error = "message" THEN toolsCall.message.text
                    ELSE "MCP request failed")

\* scenario A: the call with msg `hi` was answered with its text echoed, and
\* returned the content that holds it
C27_Witness ==
  /\ Answered /\ toolsCall.msg = "hi" /\ toolsCall.message.text = toolsCall.msg
  /\ toolsCall.message.result = "content" /\ toolsCall.message.error = "absent"
  /\ toolsCall.ret = [status |-> "success", hasContent |-> TRUE,
                      content |-> "[{\"type\":\"text\",\"text\":\"hi\"}]"]


\* ------------------------------------------------------ claim C28
\* the listTools or callTool call of c has ended on a response
Responded(c) ==
  /\ httpCalls[c].pc = "done" /\ httpCalls[c].method \in {"listTools", "callTool"}
  /\ httpCalls[c].response.kind = "response"
IsError(c) == httpCalls[c].outcome.kind \in {"thrown", "errorResult"}
\* the error of the call carries the status code and the body text
CarriesStatusAndBody(c) ==
  /\ IsError(c)
  /\ \E prefix \in {"", "Tool execution failed: "} :
       httpCalls[c].outcome.message =
         prefix \o "HTTP " \o ToString(httpCalls[c].response.status) \o ": "
                \o httpCalls[c].response.text
\* no step of a call changes the config of the connection or the call of
\* another flow of control
CallsAreIndependent ==
  /\ httpConfig' = httpConfig
  /\ \A c, d \in HttpCallers :
       (c # d /\ httpCalls'[c] # httpCalls[c]) => httpCalls'[d] = httpCalls[d]

\* C28 as claimed: a response to listTools or callTool with a status outside
\* 200..299 is surfaced as an error carrying the status code and the body
\* text, a response with a status inside never is an error; and no call
\* changes the state of the connection or another call.
C28_Non2xxIsTheError ==
  [][/\ \A c \in HttpCallers :
          Responded(c)' =>
            IF httpCalls'[c].response.status \in 200..299 THEN ~IsError(c)'
            ELSE CarriesStatusAndBody(c)'
      /\ CallsAreIndependent]_vars

\* C28, amended: a response with a status outside 200..299 whose body text
\* is read is surfaced as an error carrying the status code and that text;
\* a response with a status inside whose body is JSON other than null never
\* is an error; and no call changes the state of the connection or another
\* call.
C28_Non2xxWithBodyIsTheError ==
  [][/\ \A c \in HttpCallers :
          Responded(c)' =>
            /\ (httpCalls'[c].response.status \notin 200..299
                  /\ httpCalls'[c].response.body # "unreadable") =>
                 CarriesStatusAndBody(c)'
            /\ (httpCalls'[c].response.status \in 200..299
                  /\ httpCalls'[c].response.body = "object") =>
                 httpCalls'[c].outcome.kind = "returned"
      /\ CallsAreIndependent]_vars

\* callTool of one flow of control ended on a 500 while the listTools of the
\* other, begun before it, waits; then that one ended on a 200
C28_Witness ==
  /\ Responded("c1") /\ httpCalls["c1"].method = "callTool"
  /\ httpCalls["c1"].response.status = 500 /\ httpCalls["c1"].response.body = "text"
  /\ httpCalls["c1"].outcome =
       [kind |-> "errorResult", value |-> "",
        message |-> "Tool execution failed: HTTP 500: Not Found"]
  /\ Responded("c2") /\ httpCalls["c2"].method = "listTools"
  /\ httpCalls["c2"].response.status = 200 /\ httpCalls["c2"].outcome = Returned("tools")


\* ------------------------------------------------------ claim C29
\* part i of the query is a file part that passes what comes before the
\* check that finds it unsafe: validateMultimodalFile or validateSecureUrl
\* throws SecurityError for it, or it is a file:// uri and the config does
\* not allow them
SecurityViolation(i) ==
  /\ i \in 1..Len(geminiQuery.parts)
  /\ geminiQuery.parts[i].type = "file"
  /\ \/ geminiQuery.parts[i].validated = "security"
     \/ /\ geminiQuery.parts[i].validated = "ok"
        /\ \/ geminiQuery.parts[i].secure = "security"
           \/ geminiQuery.parts[i].uri = "file" /\ ~geminiQuery.allowFileUris

C30_TruncatesOver200 ==
  [][modelError'.state = "truncated" =>
       /\ modelError'.response = modelError.response
       /\ IF Len(modelError.response) <= 200
          THEN modelError'.truncated = modelError.response
          ELSE /\ Len(modelError'.truncated) = 203
               /\ \A k \in 1..200 : modelError'.truncated[k] = modelError.response[k]
               /\ \A k \in 201..203 : modelError'.truncated[k] = "."]_vars

\* a response of 201 characters was truncated to 203, and one of exactly 200
\* would not be: the error still holds all 201
C30_Witness ==
  /\ modelError.state = "truncated"
  /\ Len(modelError.response) = 201 /\ modelError.response[201] = "A"
  /\ modelError.response[200] = "B"
  /\ Len(modelError.truncated) = 203 /\ modelError.truncated[200] = "B"
  /\ modelError.truncated[201] = "."


\* ------------------------------------------------------ claim C31
\* C31: the 'exit' event of the child of an earlier connect() leaves
\* this.process as it is, and a connection that was connected and whose
\* new child runs is connected after it.
C31_LateExitKeepsNewProcess ==
  [][(oldChild = "dead" /\ oldChild' = "exited") =>
       /\ process' = process
       /\ (IsConnected /\ child' = "running") => IsConnected']_vars

\* what the code does: the 'exit' event of any child the connection has
\* spawned leaves this.process null
C31_AnyExitNullsProcess ==
  [][(lastEvent'.op \in {"exit", "exitOld"}) => (process' = "null" /\ ~IsConnected')]_vars


\* ------------------------------------------------------ claim C32
\* C32: every child the client has spawned, that runs and has not been
\* signalled, is the child of a connection in stdioServers; and after
\* shutdown() no such child is left.
C32_NoSubprocessLeaked ==
  /\ \A k \in 1..Len(spawns.children) :
       spawns.children[k].state = "running" =>
         \E n \in ServerNames : spawns.stdioServers[n] = k
  /\ spawns.op = "shutdown" =>
       \A k \in 1..Len(spawns.children) : spawns.children[k].state # "running"

\* what the code keeps: a running child that is in no connection of
\* stdioServers was spawned for a name that was set again, or was left by a
\* shutdown() that could not reach it
C32_LeakedOnlyByOverwrite ==
  \A k \in 1..Len(spawns.children) :
    (spawns.children[k].state = "running"
       /\ \A n \in ServerNames : spawns.stdioServers[n] # k) =>
      \E j \in (k + 1)..Len(spawns.children) :
        spawns.children[j].server = spawns.children[k].server


\* ------------------------------------------------------ claim C33
\* the ids written to the child's stdin so far
WrittenIds == {written[k] : k \in 1..Len(written)}

\* C33: when the line of a request is written, its entry is in the table; a
\* response that finds no entry is the response of a request that was never
\* written or is settled by then; and the table holds only ids of requests
\* that are not settled and are written, or being written by the sendRequest
\* in progress.
C33_EntryBeforeWrite ==
  /\ [][written' # written =>
          /\ Len(written') = Len(written) + 1
          /\ written'[Len(written')] \in pendingRequests
          /\ pendingRequests' = pendingRequests]_vars
  /\ [][\A i \in Ids : (lastEvent'.op = "data" /\ i \in lastEvent'.dropped
                           /\ i \in WrittenIds) => settleCount'[i] >= 1]_vars
  /\ [](\A i \in pendingRequests :
          /\ settleCount[i] = 0
          /\ i \in WrittenIds \/ (lastEvent.op = "set" /\ lastEvent.id = i))

\* two requests written one after the other, the first answered while the
\* second waits in the table
C33_Witness ==
  /\ written = <<1, 2>> /\ lastEvent.op = "data" /\ lastEvent.matched = {1}
  /\ pendingRequests = {2} /\ settleCount[1] = 1 /\ timer[2] = "armed"

====
